---------------------------- MODULE Spec2Model ----------------------------
(***************************************************************************)
(* Model of the evolution engine of evolution-lab (crate `genetic`):       *)
(* the run loop of EvolutionEngine with its lock-guarded status, the halt  *)
(* requests that race with it, configuration validation, the genetic pool  *)
(* resolution and the four selection algorithms used by the renewal.       *)
(*                                                                         *)
(* Conventions.  Indices into vectors are 0-based as in the source; a      *)
(* vector is a TLA+ sequence and element i of the source is s[i + 1].      *)
(* Ratios and mutation rates (f32 in the source) are integers counting     *)
(* hundredths, so 1.0 is RatioOne; only values whose sums and products     *)
(* are far from a rounding boundary are used.  A fitness is an integer.    *)
(* The random source is a script of naturals consumed in order: a draw in  *)
(* the range lo..hi is lo + (draw % (hi - lo)).                            *)
(***************************************************************************)
EXTENDS FiniteSets, Integers, Sequences, TLC

----------------------------------------------------------------------------
(* Bounds of the model *)

MaxPop == 2

MaxGen == 2

MaxHalts == 2

MaxStarts == 2

RngLen == 2

RngMax == 1

MaxObservers == 3

MaxNotify == 2

MaxCallers == 3

----------------------------------------------------------------------------
(* Program constants *)

RatioOne == 100

DEFAULT_MUTATION_RATE == 1

MIN_WEIGHT == 1

----------------------------------------------------------------------------
(* Vectors *)

Min(a, b) == IF a < b THEN a ELSE b

Iota(n) == [k \in 1..n |-> k - 1]

Swap(s, i, j) ==
  [k \in 1..Len(s) |-> IF k = i + 1 THEN s[j + 1]
                       ELSE IF k = j + 1 THEN s[i + 1]
                       ELSE s[k]]

Take(s, n) == SubSeq(s, 1, n)

\* The last element takes the place of the removed one.
SwapRemove(s, i) ==
  [k \in 1..(Len(s) - 1) |-> IF k = i + 1 THEN s[Len(s)] ELSE s[k]]

RECURSIVE SumSeq(_)
SumSeq(s) == IF s = <<>> THEN 0 ELSE Head(s) + SumSeq(Tail(s))

----------------------------------------------------------------------------
(* The random source: Random::gen_range and sample_from_distribution *)

Scripts == [1..RngLen -> 0..RngMax]

Draw(script, pos) == script[(pos % Len(script)) + 1]

GenRange(script, pos, lo, hi) == lo + (Draw(script, pos) % (hi - lo))

\* Positions (0-based) of the strictly positive weights, in order.
PositivePositions(weights) ==
  SelectSeq(Iota(Len(weights)), LAMBDA k : weights[k + 1] > 0)

SampleFromDistribution(script, pos, weights) ==
  LET pp == PositivePositions(weights)
  IN  pp[(Draw(script, pos) % Len(pp)) + 1]

----------------------------------------------------------------------------
(* Selection results *)

SelOk(indexes, pos) == [kind |-> "Ok", idx |-> indexes, pos |-> pos]

SelErr(name, a, b) == [kind |-> "Err", err |-> <<name, a, b>>]

SelPanic == [kind |-> "Panic"]

----------------------------------------------------------------------------
(* select_by_chance: a partial Fisher-Yates shuffle of the indices *)

\* A shuffle that draws every position from the whole range.
RECURSIVE ChanceLoopWholeRange(_, _, _, _, _, _)
ChanceLoopWholeRange(indexes, i, selection_count, len, script, pos) ==
  IF i >= selection_count
  THEN [idx |-> indexes, pos |-> pos]
  ELSE LET selected_index == GenRange(script, pos, 0, len)
       IN  ChanceLoopWholeRange(Swap(indexes, i, selected_index), i + 1,
                                selection_count, len, script, pos + 1)

RECURSIVE ChanceLoop(_, _, _, _, _, _)
ChanceLoop(indexes, i, selection_count, len, script, pos) ==
  IF i >= selection_count
  THEN [idx |-> indexes, pos |-> pos]
  ELSE LET selected_index == GenRange(script, pos, i, len)
       IN  ChanceLoop(Swap(indexes, i, selected_index), i + 1,
                      selection_count, len, script, pos + 1)

\* Without the expected_count > 0 guard, len - 1 underflows on an empty
\* population.
select_by_chance_unguarded(evaluations, expected_count, script, pos) ==
  LET len == Len(evaluations)
  IN  IF expected_count > len
      THEN SelErr("OutOfRange", expected_count, len)
      ELSE IF len = 0
      THEN SelPanic
      ELSE LET r == ChanceLoop(Iota(len), 0, Min(expected_count, len - 1),
                               len, script, pos)
           IN  SelOk(Take(r.idx, expected_count), r.pos)

select_by_chance(evaluations, expected_count, script, pos) ==
  LET len == Len(evaluations)
  IN  IF expected_count > len
      THEN SelErr("OutOfRange", expected_count, len)
      ELSE IF expected_count > 0
      THEN LET r == ChanceLoop(Iota(len), 0, Min(expected_count, len - 1),
                               len, script, pos)
           IN  SelOk(Take(r.idx, expected_count), r.pos)
      ELSE SelOk(<<>>, pos)

----------------------------------------------------------------------------
(* select_by_rank: stable sort by descending fitness, then a shuffle of    *)
(* the first min(max_rank, len) places                                     *)

\* Vec::sort_by is stable: equal fitnesses keep their index order.
RankBefore(evaluations, a, b) ==
  \/ evaluations[a + 1].fitness > evaluations[b + 1].fitness
  \/ /\ evaluations[a + 1].fitness = evaluations[b + 1].fitness
     /\ a < b

\* The comparator taken the other way round: lowest fitness first.
SortedByFitnessAsc(evaluations) ==
  LET len == Len(evaluations)
      place(a) == Cardinality({b \in 0..(len - 1) : RankBefore(evaluations, a, b)})
  IN  [k \in 1..len |-> CHOOSE a \in 0..(len - 1) : place(a) = k - 1]

SortedByFitnessDesc(evaluations) ==
  LET len == Len(evaluations)
      place(a) == Cardinality({b \in 0..(len - 1) : RankBefore(evaluations, b, a)})
  IN  [k \in 1..len |-> CHOOSE a \in 0..(len - 1) : place(a) = k - 1]

select_by_rank_whole_population(evaluations, expected_count, max_rank, script, pos) ==
  LET len == Len(evaluations)
  IN  IF expected_count > max_rank
      THEN SelErr("OutOfRank", expected_count, max_rank)
      ELSE IF expected_count > len
      THEN SelErr("OutOfRange", expected_count, len)
      ELSE IF expected_count > 0
      THEN LET r == ChanceLoop(SortedByFitnessDesc(evaluations), 0,
                               Min(expected_count, len - 1),
                               len, script, pos)
           IN  SelOk(Take(r.idx, expected_count), r.pos)
      ELSE SelOk(<<>>, pos)

select_by_rank_range_first(evaluations, expected_count, max_rank, script, pos) ==
  LET len == Len(evaluations)
  IN  IF expected_count > len
      THEN SelErr("OutOfRange", expected_count, len)
      ELSE IF expected_count > max_rank
      THEN SelErr("OutOfRank", expected_count, max_rank)
      ELSE IF expected_count > 0
      THEN LET clamped == Min(max_rank, len)
               r == ChanceLoop(SortedByFitnessDesc(evaluations), 0,
                               Min(expected_count, clamped - 1),
                               clamped, script, pos)
           IN  SelOk(Take(r.idx, expected_count), r.pos)
      ELSE SelOk(<<>>, pos)

select_by_rank(evaluations, expected_count, max_rank, script, pos) ==
  LET len == Len(evaluations)
  IN  IF expected_count > max_rank
      THEN SelErr("OutOfRank", expected_count, max_rank)
      ELSE IF expected_count > len
      THEN SelErr("OutOfRange", expected_count, len)
      ELSE IF expected_count > 0
      THEN LET clamped == Min(max_rank, len)
               r == ChanceLoop(SortedByFitnessDesc(evaluations), 0,
                               Min(expected_count, clamped - 1),
                               clamped, script, pos)
           IN  SelOk(Take(r.idx, expected_count), r.pos)
      ELSE SelOk(<<>>, pos)

----------------------------------------------------------------------------
(* select_by_tournament *)

\* The inner loop: pool_size draws of a position among the candidates; the
\* position drawn is what is pushed to the pool.  gen_range panics on an
\* empty range.
RECURSIVE TournamentPool(_, _, _, _, _)
TournamentPool(candidates, pool, remaining, script, pos) ==
  IF remaining = 0
  THEN [panic |-> FALSE, pool |-> pool, pos |-> pos]
  ELSE IF Len(candidates) = 0
  THEN [panic |-> TRUE, pool |-> pool, pos |-> pos]
  ELSE LET candidate == GenRange(script, pos, 0, Len(candidates))
       IN  TournamentPool(SwapRemove(candidates, candidate),
                          Append(pool, candidate), remaining - 1,
                          script, pos + 1)

\* Iterator::max_by with the comparator fitness[b].partial_cmp(fitness[a]):
\* the maximum of the reversed order, the last one among equals.
RECURSIVE TournamentWinner(_, _, _)
TournamentWinner(evaluations, pool, best) ==
  IF pool = <<>>
  THEN best
  ELSE LET x == Head(pool)
       IN  TournamentWinner(
             evaluations, Tail(pool),
             IF evaluations[x + 1].fitness <= evaluations[best + 1].fitness
             THEN x ELSE best)

\* The outer loop.  trace records, for each rank, the indices already
\* placed, the candidates, the pool as pushed, the winner and the index
\* that the swap puts at the rank.
RECURSIVE TournamentLoop(_, _, _, _, _, _, _, _)
TournamentLoop(evaluations, indexes, i, selection_count, pool_size, script, pos, trace) ==
  IF i >= selection_count
  THEN [panic |-> FALSE, idx |-> indexes, pos |-> pos, trace |-> trace]
  ELSE LET len == Len(evaluations)
           p == TournamentPool(SubSeq(indexes, i + 1, len), <<>>, pool_size,
                               script, pos)
       IN  IF p.panic \/ p.pool = <<>>
           THEN [panic |-> TRUE, idx |-> indexes, pos |-> p.pos, trace |-> trace]
           ELSE LET winner == TournamentWinner(evaluations, Tail(p.pool),
                                               Head(p.pool))
                    swapped == Swap(indexes, i, winner)
                IN  TournamentLoop(
                      evaluations, swapped, i + 1, selection_count, pool_size,
                      script, p.pos,
                      Append(trace, [rank |-> i,
                                     selected |-> SubSeq(indexes, 1, i),
                                     candidates |-> SubSeq(indexes, i + 1, len),
                                     pool |-> p.pool,
                                     winner |-> winner,
                                     placed |-> swapped[i + 1]]))

TournamentRun(evaluations, expected_count, pool_size, script, pos) ==
  TournamentLoop(evaluations, Iota(Len(evaluations)), 0,
                 Min(expected_count, Len(evaluations) - 1), pool_size,
                 script, pos, <<>>)

select_by_tournament(evaluations, expected_count, pool_size, script, pos) ==
  LET len == Len(evaluations)
  IN  IF expected_count > len
      THEN SelErr("OutOfRange", expected_count, len)
      ELSE IF expected_count > 0
      THEN LET r == TournamentRun(evaluations, expected_count, pool_size,
                                  script, pos)
           IN  IF r.panic THEN SelPanic
               ELSE SelOk(Take(r.idx, expected_count), r.pos)
      ELSE SelOk(<<>>, pos)

----------------------------------------------------------------------------
(* select_by_weight *)

\* (MIN_WEIGHT + v) in hundredths, for a fitness v counted in units.
WeightOf(v) == MIN_WEIGHT + (RatioOne * v)

\* WeightedIndex::new on the weights w / total: it fails on an empty list, on
\* a weight that is negative or not a number, and on a zero sum.  The sign
\* of w / total is what decides; a zero total makes every quotient infinite
\* or not a number.
WeightsValid(ws) ==
  LET total == SumSeq(ws)
  IN  /\ Len(ws) > 0
      /\ total # 0
      /\ \A k \in 1..Len(ws) : ws[k] * total >= 0
      /\ \E k \in 1..Len(ws) : ws[k] # 0

NormalizedSigns(ws) == [k \in 1..Len(ws) |-> IF ws[k] = 0 THEN 0 ELSE 1]

\* The sampled value is not brought to the front before the front is popped.
RECURSIVE WeightLoopPopFront(_, _, _, _, _, _, _)
WeightLoopPopFront(indexes, values, i, selection_count, script, pos, trace) ==
  IF i >= selection_count
  THEN [err |-> FALSE, idx |-> indexes, pos |-> pos, trace |-> trace]
  ELSE LET ws == [k \in 1..Len(values) |-> WeightOf(values[k])]
       IN  IF ~WeightsValid(ws)
           THEN [err |-> TRUE, idx |-> indexes, pos |-> pos, trace |-> trace]
           ELSE LET index == SampleFromDistribution(script, pos,
                                                    NormalizedSigns(ws))
                IN  WeightLoopPopFront(Swap(indexes, i, i + index),
                                       Tail(values), i + 1,
                                       selection_count, script, pos + 1,
                                       Append(trace, [indexes |-> indexes,
                                                      values |-> values,
                                                      index |-> index]))

\* trace records, for each step, the indexes and the values the step found
\* and the position it sampled.
RECURSIVE WeightLoop(_, _, _, _, _, _, _)
WeightLoop(indexes, values, i, selection_count, script, pos, trace) ==
  IF i >= selection_count
  THEN [err |-> FALSE, idx |-> indexes, pos |-> pos, trace |-> trace]
  ELSE LET ws == [k \in 1..Len(values) |-> WeightOf(values[k])]
       IN  IF ~WeightsValid(ws)
           THEN [err |-> TRUE, idx |-> indexes, pos |-> pos, trace |-> trace]
           ELSE LET index == SampleFromDistribution(script, pos,
                                                    NormalizedSigns(ws))
                IN  WeightLoop(Swap(indexes, i, i + index),
                               Tail(Swap(values, 0, index)), i + 1,
                               selection_count, script, pos + 1,
                               Append(trace, [indexes |-> indexes,
                                              values |-> values,
                                              index |-> index]))

select_by_weight_saturating(evaluations, expected_count, script, pos) ==
  LET len == Len(evaluations)
  IN  IF expected_count > len
      THEN SelOk(Iota(len), pos)
      ELSE IF expected_count > 1
      THEN LET r == WeightLoop(Iota(len),
                               [k \in 1..len |-> evaluations[k].fitness], 0,
                               Min(expected_count, len - 1), script, pos, <<>>)
           IN  IF r.err THEN SelErr("InvalidWeights", 0, 0)
               ELSE SelOk(Take(r.idx, expected_count), r.pos)
      ELSE SelOk(<<>>, pos)

select_by_weight(evaluations, expected_count, script, pos) ==
  LET len == Len(evaluations)
  IN  IF expected_count > len
      THEN SelErr("OutOfRange", expected_count, len)
      ELSE IF expected_count > 1
      THEN LET r == WeightLoop(Iota(len),
                               [k \in 1..len |-> evaluations[k].fitness], 0,
                               Min(expected_count, len - 1), script, pos, <<>>)
           IN  IF r.err THEN SelErr("InvalidWeights", 0, 0)
               ELSE SelOk(Take(r.idx, expected_count), r.pos)
      ELSE SelOk(<<>>, pos)

----------------------------------------------------------------------------
(* select and select_couples: dispatch on the selection type *)

Chance == [type |-> "Chance", param |-> 0]

Ranking(max_rank) == [type |-> "Ranking", param |-> max_rank]

Tournament(pool_size) == [type |-> "Tournament", param |-> pool_size]

Weight == [type |-> "Weight", param |-> 0]

select(evaluations, selection_count, selection_type, script, pos) ==
  CASE selection_type.type = "Chance" ->
         select_by_chance(evaluations, selection_count, script, pos)
    [] selection_type.type = "Ranking" ->
         select_by_rank(evaluations, selection_count, selection_type.param,
                        script, pos)
    [] selection_type.type = "Tournament" ->
         select_by_tournament(evaluations, selection_count,
                              selection_type.param, script, pos)
    [] selection_type.type = "Weight" ->
         select_by_weight(evaluations, selection_count, script, pos)

RECURSIVE CouplesLoop(_, _, _, _, _, _)
CouplesLoop(evaluations, remaining, selection_type, script, pos, couples) ==
  IF remaining = 0
  THEN SelOk(couples, pos)
  ELSE LET r == select(evaluations, 2, selection_type, script, pos)
       IN  IF r.kind # "Ok"
           THEN r
           ELSE CouplesLoop(evaluations, remaining - 1, selection_type, script,
                            r.pos, Append(couples, <<r.idx[1], r.idx[2]>>))

select_couples(evaluations, couples_count, selection_type, script, pos) ==
  CouplesLoop(evaluations, couples_count, selection_type, script, pos, <<>>)

----------------------------------------------------------------------------
(* Configuration and its validation *)

None == [some |-> FALSE]

Some(x) == [some |-> TRUE, val |-> x]

GeneticRenewalParam(mutation_rate, ratio, selection_type) ==
  [mutation_rate |-> mutation_rate, ratio |-> ratio,
   selection_type |-> selection_type]

GenerationRenewalConfig(cloning, crossover) ==
  [cloning |-> cloning, crossover |-> crossover]

EvolutionConfig(population_size, generation_renewal_config) ==
  [population_size |-> population_size,
   generation_renewal_config |-> generation_renewal_config]

\* #[validate(range(min = 0f32, max = 1f32))] on mutation_rate and ratio
InUnitRange(x) == 0 <= x /\ x <= RatioOne

ValidParam(param) ==
  /\ param.mutation_rate.some => InUnitRange(param.mutation_rate.val)
  /\ InUnitRange(param.ratio)

validate_strictly_above_one(config) ==
  IF config.cloning.some /\ config.crossover.some
  THEN ~(config.cloning.val.ratio + config.crossover.val.ratio > RatioOne)
  ELSE TRUE

validate_generation_renewal_config(config) ==
  IF config.cloning.some /\ config.crossover.some
  THEN ~(config.cloning.val.ratio + config.crossover.val.ratio >= RatioOne)
  ELSE TRUE

ValidRenewal(config) ==
  /\ config.cloning.some => ValidParam(config.cloning.val)
  /\ config.crossover.some => ValidParam(config.crossover.val)
  /\ validate_generation_renewal_config(config)

ValidateRenewalOnly(config) ==
  config.generation_renewal_config.some =>
    ValidRenewal(config.generation_renewal_config.val)

\* EvolutionConfig::validate
Validate(config) ==
  /\ config.population_size >= 1
  /\ config.generation_renewal_config.some =>
       ValidRenewal(config.generation_renewal_config.val)

----------------------------------------------------------------------------
(* Genetic pools and execution settings *)

GeneticPool(count, mutation_rate, selection_type) ==
  [count |-> count, mutation_rate |-> mutation_rate,
   selection_type |-> selection_type]

DefaultPool == GeneticPool(0, 0, Weight)

from_params_nearest(params, total) ==
  GeneticPool(IF params.ratio < 0 THEN 0
              ELSE ((params.ratio * total) + (RatioOne \div 2)) \div RatioOne,
              IF params.mutation_rate.some THEN params.mutation_rate.val
              ELSE DEFAULT_MUTATION_RATE,
              params.selection_type)

\* (params.ratio * total as f32) as usize: the cast truncates toward zero
\* and saturates at 0 for a negative product.
from_params(params, total) ==
  GeneticPool(IF params.ratio < 0 THEN 0 ELSE (params.ratio * total) \div RatioOne,
              IF params.mutation_rate.some THEN params.mutation_rate.val
              ELSE DEFAULT_MUTATION_RATE,
              params.selection_type)

from_optional_params(params, total) ==
  IF params.some THEN from_params(params.val, total) ELSE DefaultPool

resolve_settings(generation_renewal_config, population_size) ==
  LET cloning == IF generation_renewal_config.some
                 THEN generation_renewal_config.val.cloning ELSE None
      crossover == IF generation_renewal_config.some
                   THEN generation_renewal_config.val.crossover ELSE None
      cloning_pool == from_optional_params(cloning, population_size)
      crossover_pool == from_optional_params(crossover, population_size)
  IN  [cloning_pool |-> cloning_pool,
       crossover_pool |-> crossover_pool,
       randoms_count |-> population_size
                           - (cloning_pool.count + crossover_pool.count)]

----------------------------------------------------------------------------
(* The engine: state *)

VARIABLES
  status,      \* EvolutionEngine.status, the value inside the mutex
  snapshot,    \* EvolutionEngine.snapshot
  events,      \* every event passed to notify_observers, in order
  pc,          \* where the run future stands ("idle": no call in progress)
  call,        \* the arguments of the call in progress (NoCall when idle)
  fitnesses,   \* the results of the challenge runs completed so far; it
               \* is what the next or the last is_complete call receives
  predCalls,   \* the generation passed to every is_complete call and the
               \* answer, in order
  result,      \* what the last start/start_from call returned
  starts,      \* number of start/start_from calls made
  hpc,         \* per halt call: "ready", "notify" or "done"
  hres,        \* per halt call: what it returned
  observers,   \* EvolutionEngine.observers: the registered handles, in order
  updates,     \* the Observer::update calls of the last notify_observers
  lock,        \* the holder of the status mutex (Free when nobody holds it)
  callers,     \* per caller of change_status on its own: where it stands
  input,       \* the arguments of a pure function under check
  output       \* its result; the engine never touches these two

vars == <<status, snapshot, events, pc, call, fitnesses, predCalls, result,
          starts, hpc, hres, observers, updates, lock, callers, input, output>>

pure == <<input, output>>

\* What no step of a run or of halt touches: the registrations, the callers
\* of change_status on its own and the lock, which such a step takes and
\* releases within the step.
apart == <<pure, observers, lock, callers>>

engine == <<status, snapshot, events, pc, call, fitnesses, predCalls, result,
            starts, hpc, hres, observers, updates, lock, callers>>

EvolutionStatus ==
  {"New", "Initializing", "Running", "Halting", "Halted", "Completed"}

StatusChanged(s) == <<"StatusChanged", s>>

GenerationCreated == <<"GenerationCreated">>

Evaluated == <<"Evaluated">>

Evaluation(genome, fitness) == [genome |-> genome, fitness |-> fitness]

Snapshot(generation, evaluations) ==
  [generation |-> generation, evaluations |-> evaluations]

DefaultSnapshot == Snapshot(0, <<>>)

----------------------------------------------------------------------------
(* The strategy and the callers' inputs *)

Genomes == {1, 2}

\* Strategy::evaluate: a pure function of the genome, never the initial 0.
Evaluate(genome) == genome

init_evaluations(genomes) ==
  [k \in 1..Len(genomes) |-> Evaluation(genomes[k], 0)]

\* get_random_genomes: count calls of Strategy::generate_genome.
RandomGenomes(count) == [1..count -> Genomes]

\* The completion predicate is the caller's: what it answers to a call is
\* any boolean, but true from generation MaxGen on.
is_complete(generation, fits) ==
  IF generation >= MaxGen THEN {TRUE} ELSE BOOLEAN

RenewalConfigs ==
  { None,
    Some(GenerationRenewalConfig(
           Some(GeneticRenewalParam(Some(0), 50, Chance)), None)),
    Some(GenerationRenewalConfig(
           None, Some(GeneticRenewalParam(None, 100, Ranking(1))))),
    Some(GenerationRenewalConfig(
           Some(GeneticRenewalParam(None, 51, Chance)),
           Some(GeneticRenewalParam(None, 51, Chance)))),
    Some(GenerationRenewalConfig(
           Some(GeneticRenewalParam(None, 200, Chance)), None)),
    Some(GenerationRenewalConfig(
           Some(GeneticRenewalParam(Some(0), 50, Weight)), None)) }

Configs ==
  {EvolutionConfig(n, r) : n \in 0..MaxPop, r \in RenewalConfigs}

\* Snapshots a caller hands to start_from.
SuppliedSnapshots ==
  { Snapshot(1, <<Evaluation(2, 0)>>),
    Snapshot(0, <<Evaluation(1, 1), Evaluation(2, 2)>>) }

NoCall == [config |-> EvolutionConfig(0, None), snapshot |-> None]

NoResult == [kind |-> "None"]

Ok(s) == [kind |-> "Ok", snapshot |-> s]

Err(name, arg) == [kind |-> "Err", err |-> name, arg |-> arg]

HaltCalls == 1..MaxHalts

\* The handles callers register: an Rc is its allocation, and the listeners
\* behind two handles can be equal.
Handles == {"a", "b", "c"}

ListenerOf == [a |-> "x", b |-> "x", c |-> "y"]

\* One call of Observer::update.
Update(observer, event) == [observer |-> observer, event |-> event]

\* The callers of change_status on its own, and what each asks for.
Callers == 1..MaxCallers

Free == 0

StatusCall(new_status, additional_check) ==
  [new_status |-> new_status, additional_check |-> additional_check]

Ready == [pc |-> "ready", call |-> StatusCall("New", {}), result |-> FALSE]

----------------------------------------------------------------------------
(* Init: EvolutionEngine::default() *)

Constructed ==
  /\ status = "New"
  /\ snapshot = DefaultSnapshot
  /\ events = <<>>
  /\ pc = "idle"
  /\ call = NoCall
  /\ fitnesses = <<>>
  /\ predCalls = <<>>
  /\ result = NoResult
  /\ starts = 0
  /\ hpc = [k \in HaltCalls |-> "ready"]
  /\ hres = [k \in HaltCalls |-> FALSE]
  /\ updates = <<>>
  /\ lock = Free
  /\ callers = [c \in Callers |-> Ready]

EngineInit ==
  /\ Constructed
  /\ observers = <<>>

NoValue == [kind |-> "None"]

Init ==
  /\ EngineInit
  /\ input = NoValue
  /\ output = NoValue

----------------------------------------------------------------------------
(* change_status: the check and the update under the lock; the            *)
(* notification follows once the lock is released                          *)

\* additional_check is the set of statuses it accepts; None accepts all.
CanChange(current_status, new_status, additional_check) ==
  /\ current_status # new_status
  /\ current_status \in additional_check

FirstOfEachHandle(s) ==
  SelectSeq(Iota(Len(s)),
            LAMBDA i : \A j \in 0..(i - 1) : s[j + 1] # s[i + 1])

notify_observers_once_per_handle(event) ==
  /\ events' = Append(events, event)
  /\ updates' = LET first == FirstOfEachHandle(observers)
                IN  [k \in 1..Len(first) |->
                       Update(observers[first[k] + 1], event)]

\* Lines 41-45: update is called on every registration, in order.
notify_observers(event) ==
  /\ events' = Append(events, event)
  /\ updates' = [k \in 1..Len(observers) |-> Update(observers[k], event)]

----------------------------------------------------------------------------
(* halt *)

HaltLockAnyStatus(k) ==
  /\ UNCHANGED <<apart, updates>>
  /\ hpc[k] = "ready"
  /\ k > 1 => hpc[k - 1] # "ready"
  /\ IF CanChange(status, "Halting", EvolutionStatus)
     THEN /\ status' = "Halting"
          /\ hpc' = [hpc EXCEPT ![k] = "notify"]
          /\ UNCHANGED hres
     ELSE /\ hpc' = [hpc EXCEPT ![k] = "done"]
          /\ hres' = [hres EXCEPT ![k] = FALSE]
          /\ UNCHANGED status
  /\ UNCHANGED <<snapshot, events, pc, call, fitnesses, predCalls, result,
                 starts>>

HaltLockStaleCheck(k) ==
  /\ UNCHANGED <<apart, updates>>
  /\ hpc[k] = "ready"
  /\ k > 1 => hpc[k - 1] # "ready"
  /\ IF status \in {"Running", "Halting"}
     THEN /\ status' = "Halting"
          /\ hpc' = [hpc EXCEPT ![k] = "notify"]
          /\ UNCHANGED hres
     ELSE /\ hpc' = [hpc EXCEPT ![k] = "done"]
          /\ hres' = [hres EXCEPT ![k] = FALSE]
          /\ UNCHANGED status
  /\ UNCHANGED <<snapshot, events, pc, call, fitnesses, predCalls, result,
                 starts>>

HaltLock(k) ==
  /\ UNCHANGED <<apart, updates>>
  /\ hpc[k] = "ready"
  /\ k > 1 => hpc[k - 1] # "ready"
  /\ IF CanChange(status, "Halting", {"Running"})
     THEN /\ status' = "Halting"
          /\ hpc' = [hpc EXCEPT ![k] = "notify"]
          /\ UNCHANGED hres
     ELSE /\ hpc' = [hpc EXCEPT ![k] = "done"]
          /\ hres' = [hres EXCEPT ![k] = FALSE]
          /\ UNCHANGED status
  /\ UNCHANGED <<snapshot, events, pc, call, fitnesses, predCalls, result,
                 starts>>

HaltNotify(k) ==
  /\ UNCHANGED apart
  /\ hpc[k] = "notify"
  /\ notify_observers(StatusChanged("Halting"))
  /\ hpc' = [hpc EXCEPT ![k] = "done"]
  /\ hres' = [hres EXCEPT ![k] = TRUE]
  /\ UNCHANGED <<status, snapshot, pc, call, fitnesses, predCalls, result,
                 starts>>

----------------------------------------------------------------------------
(* get_clones, get_offsprings, get_new_generation *)

\* Strategy::mutate and Strategy::crossover are the caller's: each may leave
\* or return any genome.
mutate(genome, mutation_rate) == Genomes

crossover(genome1, genome2) == Genomes

\* One strategy call: what it is given and what it leaves or returns.
MutateCall(genome, mutation_rate, left) ==
  [op |-> "mutate", given |-> <<genome>>, rate |-> mutation_rate,
   result |-> left]

CrossoverCall(genome1, genome2, returned) ==
  [op |-> "crossover", given |-> <<genome1, genome2>>, rate |-> 0,
   result |-> returned]

CloneOfAlwaysMutated(genome, mutation_rate) ==
  {[genome |-> m, calls |-> <<MutateCall(genome, mutation_rate, m)>>] :
     m \in mutate(genome, mutation_rate)}

\* What one clone or one offspring can be, with the strategy calls made for
\* it, in order.
CloneOf(genome, mutation_rate) ==
  IF mutation_rate > 0
  THEN {[genome |-> m, calls |-> <<MutateCall(genome, mutation_rate, m)>>] :
          m \in mutate(genome, mutation_rate)}
  ELSE {[genome |-> genome, calls |-> <<>>]}

OffspringOf(genome1, genome2, mutation_rate) ==
  IF mutation_rate > 0
  THEN UNION {{[genome |-> m,
                calls |-> <<CrossoverCall(genome1, genome2, c),
                            MutateCall(c, mutation_rate, m)>>] :
                 m \in mutate(c, mutation_rate)} :
                c \in crossover(genome1, genome2)}
  ELSE {[genome |-> c, calls |-> <<CrossoverCall(genome1, genome2, c)>>] :
          c \in crossover(genome1, genome2)}

\* The sequences of outcomes the map can collect, outcomes[k] being those
\* of the k-th selected.
Collected(outcomes) ==
  {m \in [1..Len(outcomes) -> UNION {outcomes[k] : k \in 1..Len(outcomes)}] :
     \A k \in 1..Len(outcomes) : m[k] \in outcomes[k]}

\* What get_clones or get_offsprings returns after the selection r: made is
\* the set of the sequences of outcomes, genomes that of the vectors
\* returned.
Collecting(r, made) ==
  [sel |-> r, made |-> made,
   genomes |-> {[k \in 1..Len(m) |-> m[k].genome] : m \in made}]

ClonesOf(evaluations, pool, r) ==
  IF r.kind # "Ok"
  THEN Collecting(r, {})
  ELSE Collecting(r, Collected([k \in 1..Len(r.idx) |->
                                  CloneOf(evaluations[r.idx[k] + 1].genome,
                                          pool.mutation_rate)]))

get_clones(evaluations, pool, script, pos) ==
  IF pool.count > 0
  THEN ClonesOf(evaluations, pool,
                select(evaluations, pool.count, pool.selection_type, script, pos))
  ELSE Collecting(SelOk(<<>>, pos), {<<>>})

OffspringsOf(evaluations, pool, r) ==
  IF r.kind # "Ok"
  THEN Collecting(r, {})
  ELSE Collecting(r, Collected([k \in 1..Len(r.idx) |->
                                  OffspringOf(evaluations[r.idx[k][1] + 1].genome,
                                              evaluations[r.idx[k][2] + 1].genome,
                                              pool.mutation_rate)]))

get_offsprings(evaluations, pool, script, pos) ==
  IF pool.count > 0
  THEN OffspringsOf(evaluations, pool,
                    select_couples(evaluations, pool.count, pool.selection_type,
                                   script, pos))
  ELSE Collecting(SelOk(<<>>, pos), {<<>>})

\* Line 300: the concatenation, for every outcome of the strategy calls.
Concatenated(clones, offsprings, randoms_count) ==
  IF offsprings.sel.kind # "Ok"
  THEN {offsprings.sel}
  ELSE {[kind |-> "Ok", genomes |-> c \o o \o r] :
          c \in clones.genomes,
          o \in offsprings.genomes,
          r \in RandomGenomes(randoms_count)}

\* Lines 290-300, the clones made.
AfterClones(evaluations, settings, script, clones) ==
  IF clones.sel.kind # "Ok"
  THEN {clones.sel}
  ELSE Concatenated(clones,
                    get_offsprings(evaluations, settings.crossover_pool, script,
                                   clones.sel.pos),
                    settings.randoms_count)

\* The set of outcomes of get_new_generation under one script of the
\* random source: new generations, or the one error, or the panic.
get_new_generation(evaluations, settings, script) ==
  AfterClones(evaluations, settings, script,
              get_clones(evaluations, settings.cloning_pool, script, 0))

----------------------------------------------------------------------------
(* run: start and start_from *)

RunInstallingFirst(config, supplied) ==
  /\ UNCHANGED <<apart, updates>>
  /\ pc = "idle"
  /\ starts < MaxStarts
  /\ starts' = starts + 1
  /\ IF supplied.some
     THEN snapshot' = supplied.val
     ELSE UNCHANGED snapshot
  /\ IF Validate(config)
     THEN /\ pc' = "init"
          /\ call' = [config |-> config, snapshot |-> supplied]
          /\ result' = NoResult
     ELSE /\ result' = Err("InvalidSettings", "-")
          /\ UNCHANGED <<pc, call>>
  /\ UNCHANGED <<status, events, fitnesses, predCalls, hpc, hres>>

\* Lines 127-128: the configuration is validated before anything else.
\* supplied is the snapshot argument of run: None from start, Some(snapshot)
\* from start_from.
Run(config, supplied) ==
  /\ UNCHANGED <<apart, updates>>
  /\ pc = "idle"
  /\ starts < MaxStarts
  /\ starts' = starts + 1
  /\ IF Validate(config)
     THEN /\ pc' = "init"
          /\ call' = [config |-> config, snapshot |-> supplied]
          /\ result' = NoResult
     ELSE /\ result' = Err("InvalidSettings", "-")
          /\ UNCHANGED <<pc, call>>
  /\ UNCHANGED <<status, snapshot, events, fitnesses, predCalls, hpc, hres>>

start == \E config \in Configs : Run(config, None)

start_from ==
  \E config \in Configs, s \in SuppliedSnapshots : Run(config, Some(s))

InitializeUnguarded ==
  /\ UNCHANGED <<apart, updates>>
  /\ pc = "init"
  /\ IF CanChange(status, "Initializing", EvolutionStatus)
     THEN /\ status' = "Initializing"
          /\ pc' = "init_notify"
     ELSE /\ pc' = "invalid_status"
          /\ UNCHANGED status
  /\ UNCHANGED <<snapshot, events, call, fitnesses, predCalls, result, starts,
                 hpc, hres>>

\* Lines 131-134: change_status(Initializing, s == New), under the lock.
Initialize ==
  /\ UNCHANGED <<apart, updates>>
  /\ pc = "init"
  /\ IF CanChange(status, "Initializing", {"New"})
     THEN /\ status' = "Initializing"
          /\ pc' = "init_notify"
     ELSE /\ pc' = "invalid_status"
          /\ UNCHANGED status
  /\ UNCHANGED <<snapshot, events, call, fitnesses, predCalls, result, starts,
                 hpc, hres>>

\* Lines 135-137: the status is read again for the error.
InvalidStatus ==
  /\ UNCHANGED <<apart, updates>>
  /\ pc = "invalid_status"
  /\ result' = Err("InvalidStatus", status)
  /\ pc' = "idle"
  /\ call' = NoCall
  /\ UNCHANGED <<status, snapshot, events, fitnesses, predCalls, starts, hpc,
                 hres>>

\* The notification of a status change made by the run, once the lock is
\* released, and where the run goes on from there.
NotifyTarget ==
  [init_notify |-> "Initializing", running_notify |-> "Running",
   halted_notify |-> "Halted", completed_notify |-> "Completed"]

AfterNotify ==
  [init_notify |-> "seed", running_notify |-> "loop_top",
   halted_notify |-> "return", completed_notify |-> "return"]

NotifyStatus ==
  /\ UNCHANGED apart
  /\ pc \in DOMAIN NotifyTarget
  /\ notify_observers(StatusChanged(NotifyTarget[pc]))
  /\ pc' = AfterNotify[pc]
  /\ UNCHANGED <<status, snapshot, call, fitnesses, predCalls, result, starts,
                 hpc, hres>>

SeedAlwaysRandom ==
  /\ UNCHANGED <<apart, updates>>
  /\ pc = "seed"
  /\ \E genomes \in RandomGenomes(call.config.population_size) :
       snapshot' = Snapshot(0, init_evaluations(genomes))
  /\ pc' = "set_running"
  /\ UNCHANGED <<status, events, call, fitnesses, predCalls, result, starts,
                 hpc, hres>>

\* Lines 144-151: the supplied snapshot, or population_size random genomes.
Seed ==
  /\ UNCHANGED <<apart, updates>>
  /\ pc = "seed"
  /\ IF call.snapshot.some
     THEN snapshot' = call.snapshot.val
     ELSE \E genomes \in RandomGenomes(call.config.population_size) :
            snapshot' = Snapshot(0, init_evaluations(genomes))
  /\ pc' = "set_running"
  /\ UNCHANGED <<status, events, call, fitnesses, predCalls, result, starts,
                 hpc, hres>>

\* Line 152: change_status(Running, None), under the lock.
SetRunning ==
  /\ UNCHANGED <<apart, updates>>
  /\ pc = "set_running"
  /\ IF CanChange(status, "Running", EvolutionStatus)
     THEN /\ status' = "Running"
          /\ pc' = "running_notify"
     ELSE /\ pc' = "loop_top"
          /\ UNCHANGED status
  /\ UNCHANGED <<snapshot, events, call, fitnesses, predCalls, result, starts,
                 hpc, hres>>

LoopTopAfterFirst ==
  /\ UNCHANGED <<apart, updates>>
  /\ pc = "loop_top"
  /\ IF CanChange(status, "Halted", {"Halting"}) /\ predCalls # <<>>
     THEN /\ status' = "Halted"
          /\ pc' = "halted_notify"
     ELSE /\ pc' = "generation_created"
          /\ UNCHANGED status
  /\ UNCHANGED <<snapshot, events, call, fitnesses, predCalls, result, starts,
                 hpc, hres>>

LoopTopEveryOther ==
  /\ UNCHANGED <<apart, updates>>
  /\ pc = "loop_top"
  /\ IF CanChange(status, "Halted", {"Halting"}) /\ snapshot.generation % 2 = 1
     THEN /\ status' = "Halted"
          /\ pc' = "halted_notify"
     ELSE /\ pc' = "generation_created"
          /\ UNCHANGED status
  /\ UNCHANGED <<snapshot, events, call, fitnesses, predCalls, result, starts,
                 hpc, hres>>

\* Lines 156-162: change_status(Halted, s == Halting), under the lock.
LoopTop ==
  /\ UNCHANGED <<apart, updates>>
  /\ pc = "loop_top"
  /\ IF CanChange(status, "Halted", {"Halting"})
     THEN /\ status' = "Halted"
          /\ pc' = "halted_notify"
     ELSE /\ pc' = "generation_created"
          /\ UNCHANGED status
  /\ UNCHANGED <<snapshot, events, call, fitnesses, predCalls, result, starts,
                 hpc, hres>>

GenerationCreatedSilent ==
  /\ UNCHANGED <<apart, updates>>
  /\ pc = "generation_created"
  /\ fitnesses' = <<>>
  /\ pc' = "evaluate"
  /\ UNCHANGED <<status, snapshot, events, call, predCalls, result, starts,
                 hpc, hres>>

\* Line 164.
NotifyGenerationCreated ==
  /\ UNCHANGED apart
  /\ pc = "generation_created"
  /\ notify_observers(GenerationCreated)
  /\ fitnesses' = <<>>
  /\ pc' = "evaluate"
  /\ UNCHANGED <<status, snapshot, call, predCalls, result, starts, hpc, hres>>

\* Lines 165-171: one challenge run of join_all completes.
RunChallenge ==
  /\ UNCHANGED <<apart, updates>>
  /\ pc = "evaluate"
  /\ Len(fitnesses) < Len(snapshot.evaluations)
  /\ fitnesses' =
       Append(fitnesses,
              Evaluate(snapshot.evaluations[Len(fitnesses) + 1].genome))
  /\ UNCHANGED <<status, snapshot, events, pc, call, predCalls, result,
                 starts, hpc, hres>>

BatchStarted == Len(fitnesses) >= Min(1, Len(snapshot.evaluations))

\* join_all(..).await returns once every challenge run has completed.
BatchComplete == Len(fitnesses) = Len(snapshot.evaluations)

WriteBackUnlessHalting ==
  /\ UNCHANGED <<apart, updates>>
  /\ pc = "evaluate"
  /\ BatchComplete
  /\ IF status = "Halting"
     THEN /\ pc' = "loop_top"
          /\ UNCHANGED snapshot
     ELSE /\ snapshot' =
               [snapshot EXCEPT !.evaluations =
                  [k \in 1..Len(snapshot.evaluations) |->
                     [snapshot.evaluations[k] EXCEPT !.fitness = fitnesses[k]]]]
          /\ pc' = "evaluated"
  /\ UNCHANGED <<status, events, call, fitnesses, predCalls, result, starts,
                 hpc, hres>>

\* Lines 173-176: the fitnesses are written back in index order.
WriteBack ==
  /\ UNCHANGED <<apart, updates>>
  /\ pc = "evaluate"
  /\ BatchComplete
  /\ snapshot' =
       [snapshot EXCEPT !.evaluations =
          [k \in 1..Len(snapshot.evaluations) |->
             IF k <= Len(fitnesses)
             THEN [snapshot.evaluations[k] EXCEPT !.fitness = fitnesses[k]]
             ELSE snapshot.evaluations[k]]]
  /\ pc' = "evaluated"
  /\ UNCHANGED <<status, events, call, fitnesses, predCalls, result, starts,
                 hpc, hres>>

\* Line 177.
NotifyEvaluated ==
  /\ UNCHANGED apart
  /\ pc = "evaluated"
  /\ notify_observers(Evaluated)
  /\ pc' = "check_complete"
  /\ UNCHANGED <<status, snapshot, call, fitnesses, predCalls, result, starts,
                 hpc, hres>>

\* Line 179: the completion predicate is called.
CheckComplete ==
  /\ UNCHANGED <<apart, updates>>
  /\ pc = "check_complete"
  /\ \E answer \in is_complete(snapshot.generation, fitnesses) :
       /\ predCalls' = Append(predCalls, [generation |-> snapshot.generation,
                                          answer |-> answer])
       /\ pc' = IF answer THEN "set_completed" ELSE "renew"
  /\ UNCHANGED <<status, snapshot, events, call, fitnesses, result, starts,
                 hpc, hres>>

SetCompletedAfterRenewal ==
  /\ UNCHANGED <<apart, updates>>
  /\ pc = "set_completed"
  /\ snapshot' = Snapshot(snapshot.generation + 1,
                          init_evaluations(
                            [k \in 1..Len(snapshot.evaluations) |->
                               snapshot.evaluations[k].genome]))
  /\ IF CanChange(status, "Completed", EvolutionStatus)
     THEN /\ status' = "Completed"
          /\ pc' = "completed_notify"
     ELSE /\ pc' = "return"
          /\ UNCHANGED status
  /\ UNCHANGED <<events, call, fitnesses, predCalls, result, starts, hpc, hres>>

\* Lines 181-185: change_status(Completed, None), under the lock.
SetCompleted ==
  /\ UNCHANGED <<apart, updates>>
  /\ pc = "set_completed"
  /\ IF CanChange(status, "Completed", EvolutionStatus)
     THEN /\ status' = "Completed"
          /\ pc' = "completed_notify"
     ELSE /\ pc' = "return"
          /\ UNCHANGED status
  /\ UNCHANGED <<snapshot, events, call, fitnesses, predCalls, result, starts,
                 hpc, hres>>

RenewUnnumbered ==
  /\ UNCHANGED <<apart, updates>>
  /\ pc = "renew"
  /\ \E script \in Scripts :
       \E out \in get_new_generation(
                    snapshot.evaluations,
                    resolve_settings(call.config.generation_renewal_config,
                                     call.config.population_size),
                    script) :
         CASE out.kind = "Ok" ->
                /\ snapshot' = Snapshot(snapshot.generation,
                                        init_evaluations(out.genomes))
                /\ pc' = "loop_top"
                /\ UNCHANGED <<call, result>>
           [] out.kind = "Err" ->
                /\ result' = Err("InvalidSelection", out.err)
                /\ pc' = "idle"
                /\ call' = NoCall
                /\ UNCHANGED snapshot
           [] out.kind = "Panic" ->
                /\ pc' = "panicked"
                /\ UNCHANGED <<snapshot, call, result>>
  /\ fitnesses' = <<>>
  /\ UNCHANGED <<status, events, predCalls, starts, hpc, hres>>

RenewHaltedOnError ==
  /\ UNCHANGED <<apart, updates>>
  /\ pc = "renew"
  /\ \E script \in Scripts :
       \E out \in get_new_generation(
                    snapshot.evaluations,
                    resolve_settings(call.config.generation_renewal_config,
                                     call.config.population_size),
                    script) :
         CASE out.kind = "Ok" ->
                /\ snapshot' = Snapshot(snapshot.generation + 1,
                                        init_evaluations(out.genomes))
                /\ pc' = "loop_top"
                /\ UNCHANGED <<call, result, status>>
           [] out.kind = "Err" ->
                /\ result' = Err("InvalidSelection", out.err)
                /\ pc' = "idle"
                /\ call' = NoCall
                /\ status' = "Halted"
                /\ UNCHANGED snapshot
           [] out.kind = "Panic" ->
                /\ pc' = "panicked"
                /\ UNCHANGED <<snapshot, call, result, status>>
  /\ fitnesses' = <<>>
  /\ UNCHANGED <<events, predCalls, starts, hpc, hres>>

\* Lines 188-190: the next generation replaces the snapshot, or the
\* selection error ends the run.
Renew ==
  /\ UNCHANGED <<apart, updates>>
  /\ pc = "renew"
  /\ \E script \in Scripts :
       \E out \in get_new_generation(
                    snapshot.evaluations,
                    resolve_settings(call.config.generation_renewal_config,
                                     call.config.population_size),
                    script) :
         CASE out.kind = "Ok" ->
                /\ snapshot' = Snapshot(snapshot.generation + 1,
                                        init_evaluations(out.genomes))
                /\ pc' = "loop_top"
                /\ UNCHANGED <<call, result>>
           [] out.kind = "Err" ->
                /\ result' = Err("InvalidSelection", out.err)
                /\ pc' = "idle"
                /\ call' = NoCall
                /\ UNCHANGED snapshot
           [] out.kind = "Panic" ->
                /\ pc' = "panicked"
                /\ UNCHANGED <<snapshot, call, result>>
  /\ fitnesses' = <<>>
  /\ UNCHANGED <<status, events, predCalls, starts, hpc, hres>>

ReturnLastEvaluated ==
  /\ UNCHANGED <<apart, updates>>
  /\ pc = "return"
  /\ result' = IF status = "Halted" /\ snapshot.generation > 0
                THEN Ok(Snapshot(snapshot.generation - 1, snapshot.evaluations))
                ELSE Ok(snapshot)
  /\ pc' = "idle"
  /\ call' = NoCall
  /\ fitnesses' = <<>>
  /\ UNCHANGED <<status, snapshot, events, predCalls, starts, hpc, hres>>

\* Line 192: Ok(self.snapshot.clone()).
Return ==
  /\ UNCHANGED <<apart, updates>>
  /\ pc = "return"
  /\ result' = Ok(snapshot)
  /\ pc' = "idle"
  /\ call' = NoCall
  /\ fitnesses' = <<>>
  /\ UNCHANGED <<status, snapshot, events, predCalls, starts, hpc, hres>>

----------------------------------------------------------------------------
(* The specification *)

Next ==
  \/ start
  \/ start_from
  \/ Initialize
  \/ InvalidStatus
  \/ NotifyStatus
  \/ Seed
  \/ SetRunning
  \/ LoopTop
  \/ NotifyGenerationCreated
  \/ RunChallenge
  \/ WriteBack
  \/ NotifyEvaluated
  \/ CheckComplete
  \/ SetCompleted
  \/ Renew
  \/ Return
  \/ \E k \in HaltCalls : HaltLock(k)
  \/ \E k \in HaltCalls : HaltNotify(k)

Spec == Init /\ [][Next]_vars

----------------------------------------------------------------------------
(* Reading the history *)

HasEvent(e) == \E i \in 1..Len(events) : events[i] = e

CountEvent(e) == Cardinality({i \in 1..Len(events) : events[i] = e})

HaltAccepted(k) == hpc[k] = "notify" \/ (hpc[k] = "done" /\ hres[k])

NoHaltAccepted == \A k \in HaltCalls : ~HaltAccepted(k)

\* A run is between its New guard and its return.
InRun == pc \notin {"idle", "init", "invalid_status", "panicked"}

----------------------------------------------------------------------------
(* C1: the status changes only along New->Initializing,                    *)
(* Initializing->Running, Running->Halting, Halting->Halted and            *)
(* Running->Completed, under every interleaving of start/start_from with   *)
(* halt requests.  The run sets Completed without a guard, so a halt       *)
(* accepted while a generation is being evaluated is followed by           *)
(* Halting->Completed.                                                     *)

LegalEdges ==
  { <<"New", "Initializing">>, <<"Initializing", "Running">>,
    <<"Running", "Halting">>, <<"Halting", "Halted">>,
    <<"Running", "Completed">> }

C1_StatusEdges ==
  [][status' # status => <<status, status'>> \in LegalEdges]_vars

----------------------------------------------------------------------------
(* C2: once halt() has returned true during a run, the status becomes      *)
(* Halted at a loop boundary and the run returns.  Stated on finite runs:  *)
(* while the status is Halting inside a run, the run does not return and   *)
(* the status changes to nothing but Halted; a run that returns with the   *)
(* status Halting, or leaves Halting for Completed, never reaches Halted.  *)

HaltReturnedTrue == \E k \in HaltCalls : hpc[k] = "done" /\ hres[k]

C2_HaltingEndsHalted ==
  [][(HaltReturnedTrue /\ status = "Halting" /\ InRun)
       => (status' \in {"Halting", "Halted"} /\ pc' # "idle")]_vars

----------------------------------------------------------------------------
(* C3: halt() returns false, leaves the status unchanged and fires no      *)
(* event whenever the status is not Running; when the status is Running    *)
(* it returns true, sets the status to Halting and fires exactly one       *)
(* StatusChanged(Halting).                                                 *)

HaltStep(k) ==
  /\ hpc[k] = "ready" /\ hpc'[k] # "ready" =>
       IF status = "Running"
       THEN /\ status' = "Halting"
            /\ hpc'[k] = "notify"
            /\ events' = events
       ELSE /\ hpc'[k] = "done"
            /\ hres'[k] = FALSE
            /\ status' = status
            /\ events' = events
  /\ hpc[k] = "notify" /\ hpc'[k] # "notify" =>
       /\ hpc'[k] = "done"
       /\ hres'[k] = TRUE
       /\ events' = Append(events, StatusChanged("Halting"))

\* One StatusChanged(Halting) per halt call that returned true, none for
\* the others.
HaltEventsCounted ==
  CountEvent(StatusChanged("Halting"))
    = Cardinality({k \in HaltCalls : hpc[k] = "done" /\ hres[k]})

C3_Halt ==
  [][(\A k \in HaltCalls : HaltStep(k)) /\ HaltEventsCounted']_vars

C3_Witness ==
  \E k, j \in HaltCalls :
    /\ hpc[k] = "done" /\ hres[k]
    /\ hpc[j] = "done" /\ ~hres[j]
    /\ HasEvent(StatusChanged("Halting"))

----------------------------------------------------------------------------
(* What the claims call a valid configuration *)

ClaimValidParam(p) ==
  /\ 0 <= p.ratio /\ p.ratio <= RatioOne
  /\ p.mutation_rate.some =>
       (0 <= p.mutation_rate.val /\ p.mutation_rate.val <= RatioOne)

ClaimValid(config) ==
  /\ config.population_size > 0
  /\ config.generation_renewal_config.some =>
       LET r == config.generation_renewal_config.val
       IN  /\ r.cloning.some => ClaimValidParam(r.cloning.val)
           /\ r.crossover.some => ClaimValidParam(r.crossover.val)
           /\ (r.cloning.some /\ r.crossover.some) =>
                r.cloning.val.ratio + r.crossover.val.ratio < RatioOne

\* A step that makes a start or start_from call.
CallStep == pc = "idle" /\ starts' # starts

InvalidSettings == Err("InvalidSettings", "-")

----------------------------------------------------------------------------
(* C4, as stated: start or start_from on an engine whose status is not     *)
(* New fails with InvalidStatus whatever the arguments.                    *)

C4_AlwaysInvalidStatus ==
  [][(CallStep /\ status # "New") => result' # InvalidSettings]_vars

(* C4, amended: on an engine whose status is not New, start or start_from  *)
(* with a configuration that passes validation fails with InvalidStatus    *)
(* carrying the current status, and with one that fails validation it      *)
(* fails with InvalidSettings; either way the call leaves the status and   *)
(* the snapshot unchanged and fires no event, so an engine that has left   *)
(* New never runs again.                                                   *)

C4_Step ==
  /\ (CallStep /\ status # "New") =>
       /\ UNCHANGED <<status, snapshot, events>>
       /\ \/ pc' = "init" /\ ClaimValid(call'.config)
          \/ pc' = "idle" /\ result' = InvalidSettings
  /\ (pc = "init" /\ pc' # pc /\ status # "New") =>
       /\ pc' = "invalid_status"
       /\ UNCHANGED <<status, snapshot, events>>
  /\ (pc = "invalid_status" /\ pc' # pc) =>
       /\ pc' = "idle"
       /\ result' = Err("InvalidStatus", status)
       /\ status # "New"
       /\ UNCHANGED <<status, snapshot, events>>
  /\ (status # "New" /\ ~InRun) => ~InRun'

C4_NotNew == [][C4_Step]_vars

C4_Witness ==
  /\ pc = "idle"
  /\ result = Err("InvalidStatus", "Completed")
  /\ status = "Completed"

----------------------------------------------------------------------------
(* C5: start with a configuration that fails validation (population_size   *)
(* 0, a ratio or mutation rate outside [0,1], both ratios present with a   *)
(* sum >= 1) returns InvalidSettings before anything else happens: on a    *)
(* fresh engine the status stays New, no event is fired, no genome is      *)
(* generated, and a later start with a valid configuration runs normally.  *)

C5_Step ==
  /\ CallStep =>
       \/ /\ pc' = "init"
          /\ ClaimValid(call'.config)
          /\ UNCHANGED <<status, snapshot, events>>
       \/ /\ pc' = "idle"
          /\ result' = InvalidSettings
          /\ UNCHANGED <<status, snapshot, events, predCalls, fitnesses, call>>
  /\ (pc = "init" /\ pc' # pc /\ status = "New") =>
       /\ pc' = "init_notify"
       /\ status' = "Initializing"

\* After a failed validation on a fresh engine nothing has happened yet.
C5_Untouched ==
  (result = InvalidSettings /\ starts = 1) =>
    /\ status = "New"
    /\ events = <<>>
    /\ predCalls = <<>>
    /\ snapshot = DefaultSnapshot
    /\ pc = "idle"

C5_InvalidSettings == [][C5_Step /\ C5_Untouched']_vars

\* The second call ran to completion, so the first one failed validation.
C5_Witness ==
  /\ starts = 2
  /\ pc = "idle"
  /\ result.kind = "Ok"
  /\ status = "Completed"
  /\ Len(result.snapshot.evaluations) > 0

----------------------------------------------------------------------------
(* The specification of validate_generation_renewal_config as a pure       *)
(* function of the renewal configuration                                   *)

RatioSamples == {0 - 25, 0, 25, 50, 51, 75, 100, 200}

OptionalParams ==
  {None} \cup {Some(GeneticRenewalParam(None, r, Chance)) : r \in RatioSamples}

ValidateInputs ==
  {GenerationRenewalConfig(c, x) : c \in OptionalParams, x \in OptionalParams}

InitValidate ==
  /\ EngineInit
  /\ input \in ValidateInputs
  /\ output = NoValue

ApplyValidate ==
  /\ output = NoValue
  /\ output' = [kind |-> "Validated",
                schema |-> validate_generation_renewal_config(input),
                all |-> ValidRenewal(input)]
  /\ UNCHANGED <<input, engine>>

NextValidate == ApplyValidate

SpecValidate == InitValidate /\ [][NextValidate]_vars

----------------------------------------------------------------------------
(* C6: the ratio-sum check fails exactly when both the cloning and the     *)
(* crossover parameters are present and their ratios sum to 1.0 or more;   *)
(* a configuration with only one of the two pools passes for every ratio   *)
(* in [0,1], 1.0 included, and a configuration with neither passes.        *)

C6_RatioSum ==
  output.kind = "Validated" =>
    LET both == input.cloning.some /\ input.crossover.some
        one == IF input.cloning.some THEN input.cloning.val
               ELSE input.crossover.val
    IN  /\ ~output.schema <=>
             (both /\ input.cloning.val.ratio + input.crossover.val.ratio
                        >= RatioOne)
        /\ (~both /\ (input.cloning.some \/ input.crossover.some)
              /\ 0 <= one.ratio /\ one.ratio <= RatioOne)
             => (output.schema /\ output.all)
        /\ (~input.cloning.some /\ ~input.crossover.some)
             => (output.schema /\ output.all)

\* 0.51 + 0.51 is refused.
C6_Witness ==
  /\ output.kind = "Validated"
  /\ input.cloning.some /\ input.crossover.some
  /\ input.cloning.val.ratio = 51 /\ input.crossover.val.ratio = 51
  /\ ~output.schema

----------------------------------------------------------------------------
(* C7: on a fresh engine with a valid configuration and no halt request,   *)
(* the events observed during a start that returns a snapshot are, in      *)
(* order, StatusChanged(Initializing), StatusChanged(Running), one         *)
(* GenerationCreated immediately followed by one Evaluated per evaluated   *)
(* generation, and StatusChanged(Completed) last; the number of pairs is   *)
(* the returned snapshot's generation + 1.                                 *)

RECURSIVE GenerationPairs(_)
GenerationPairs(n) ==
  IF n = 0 THEN <<>>
  ELSE <<GenerationCreated, Evaluated>> \o GenerationPairs(n - 1)

ExpectedEvents(pairs) ==
  <<StatusChanged("Initializing"), StatusChanged("Running")>>
    \o GenerationPairs(pairs)
    \o <<StatusChanged("Completed")>>

\* pc = "return": the run is about to return Ok(snapshot).
C7_EventOrder ==
  (pc = "return" /\ ~call.snapshot.some /\ NoHaltAccepted) =>
    /\ status = "Completed"
    /\ events = ExpectedEvents(snapshot.generation + 1)

C7_Witness ==
  /\ pc = "return"
  /\ ~call.snapshot.some
  /\ NoHaltAccepted
  /\ snapshot.generation = 2
  /\ Len(events) = 9

----------------------------------------------------------------------------
(* C8: a halt request accepted after the status became Running and before  *)
(* the first loop-top check makes the run break before generation 0 is     *)
(* evaluated: no GenerationCreated or Evaluated event, no call of          *)
(* strategy.evaluate or of the completion predicate, the status ends       *)
(* Halted and the snapshot returned is the seeded (or supplied)            *)
(* population unchanged.                                                   *)

\* No generation has been started yet.
FirstBoundary == ~HasEvent(GenerationCreated)

Unevaluated(s, population_size) ==
  /\ s.generation = 0
  /\ Len(s.evaluations) = population_size
  /\ \A i \in 1..Len(s.evaluations) :
       s.evaluations[i].fitness = 0 /\ s.evaluations[i].genome \in Genomes

C8_Step ==
  /\ (pc = "loop_top" /\ FirstBoundary /\ status = "Halting" /\ pc' # pc) =>
       /\ pc' = "halted_notify"
       /\ status' = "Halted"
       /\ events' = events
  /\ (pc = "halted_notify" /\ FirstBoundary /\ pc' # pc) =>
       /\ pc' = "return"
       /\ events' = Append(events, StatusChanged("Halted"))
  /\ (pc = "return" /\ FirstBoundary /\ pc' # pc) =>
       /\ pc' = "idle"
       /\ result' = Ok(snapshot)
       /\ status' = "Halted"
  /\ (pc \in {"set_running", "running_notify", "loop_top", "halted_notify",
              "return"} /\ FirstBoundary) =>
       snapshot' = snapshot

C8_Broken ==
  (pc \in {"halted_notify", "return"} /\ FirstBoundary) =>
    /\ status = "Halted"
    /\ predCalls = <<>>
    /\ fitnesses = <<>>
    /\ ~HasEvent(Evaluated)
    /\ IF call.snapshot.some
       THEN snapshot \in SuppliedSnapshots
       ELSE Unevaluated(snapshot, call.config.population_size)

C8_HaltBeforeFirst == [][C8_Step /\ C8_Broken']_vars

C8_Witness ==
  /\ pc = "return"
  /\ FirstBoundary
  /\ status = "Halted"
  /\ ~call.snapshot.some
  /\ Len(snapshot.evaluations) = 2
  /\ HasEvent(StatusChanged("Halted"))

----------------------------------------------------------------------------
(* C9: whenever an Evaluated event is fired and whenever the completion    *)
(* predicate is called, every evaluation i of the live snapshot holds      *)
(* strategy.evaluate(genome i), and the predicate receives these           *)
(* fitnesses in index order; nobody sees a partly written batch.           *)

FitnessesOf(s) == [i \in 1..Len(s.evaluations) |-> s.evaluations[i].fitness]

EvaluatedFitnesses(s) ==
  [i \in 1..Len(s.evaluations) |-> Evaluate(s.evaluations[i].genome)]

\* pc = "evaluated": Evaluated is fired next; pc = "check_complete": the
\* predicate is called next, with fitnesses; pc = "set_completed" or
\* "renew": it has just been called with fitnesses.
C9_WholeBatch ==
  /\ pc \in {"evaluated", "check_complete", "set_completed", "renew"} =>
       /\ FitnessesOf(snapshot) = EvaluatedFitnesses(snapshot)
       /\ fitnesses = EvaluatedFitnesses(snapshot)
  /\ pc \in {"set_completed", "renew"} =>
       /\ predCalls # <<>>
       /\ predCalls[Len(predCalls)].generation = snapshot.generation

C9_Witness ==
  /\ pc = "renew"
  /\ snapshot.generation = 1
  /\ Len(snapshot.evaluations) = 2
  /\ fitnesses = <<2, 1>>

----------------------------------------------------------------------------
(* C10: a halt request never interrupts a generation in flight: no         *)
(* StatusChanged(Halted) is fired, and the status is not Halted, between   *)
(* a GenerationCreated event and the Evaluated event of that generation,   *)
(* even when halt() is accepted between the two.                           *)

GenerationEvents(n) ==
  {j \in 1..n : events[j] \in {GenerationCreated, Evaluated}}

\* The last generation event among the first n events is not a
\* GenerationCreated still waiting for its Evaluated.
BatchClosed(n) ==
  LET g == GenerationEvents(n)
  IN  g # {} => events[CHOOSE j \in g : \A m \in g : m <= j] = Evaluated

C10_NoInterrupt ==
  /\ \A i \in 1..Len(events) :
       events[i] = StatusChanged("Halted") => BatchClosed(i)
  /\ status = "Halted" => BatchClosed(Len(events))

C10_Witness ==
  /\ HasEvent(StatusChanged("Halted"))
  /\ \E j \in 2..(Len(events) - 1) :
       /\ events[j - 1] = GenerationCreated
       /\ events[j] = StatusChanged("Halting")
       /\ events[j + 1] = Evaluated

----------------------------------------------------------------------------
(* C11: when a run ends with the status Completed, the snapshot it returns *)
(* has the generation number that was passed to the predicate call that    *)
(* returned true and the fitness values that call received; between that   *)
(* call and the return there is no renewal and the generation counter      *)
(* does not move.                                                          *)

LastPredCall == predCalls[Len(predCalls)]

\* The run is past a predicate call that returned true.
AfterTrue == pc \in {"set_completed", "completed_notify"}
               \/ (pc = "return" /\ status = "Completed")

C11_Step ==
  /\ AfterTrue =>
       /\ snapshot' = snapshot
       /\ predCalls' = predCalls
       /\ pc' \in {"set_completed", "completed_notify", "return", "idle"}
  /\ (pc = "return" /\ status = "Completed" /\ pc' # pc) =>
       /\ result' = Ok(snapshot)
       /\ status' = "Completed"

C11_AtReturn ==
  AfterTrue =>
    /\ predCalls # <<>>
    /\ LastPredCall.answer
    /\ \A i \in 1..(Len(predCalls) - 1) :
         predCalls[i].generation < LastPredCall.generation
    /\ snapshot.generation = LastPredCall.generation
    /\ FitnessesOf(snapshot) = fitnesses

C11_CompletedSnapshot == [][C11_Step /\ C11_AtReturn']_vars

\* A run that completed at generation 1, after a first answer of false.
C11_Witness ==
  /\ pc = "idle"
  /\ status = "Completed"
  /\ result.kind = "Ok"
  /\ result.snapshot.generation = 1
  /\ Len(predCalls) = 2
  /\ ~predCalls[1].answer /\ predCalls[2].answer
  /\ FitnessesOf(result.snapshot) = <<1, 2>>

----------------------------------------------------------------------------
(* The specification of select and select_couples as pure functions of     *)
(* the population, the requested count, the selection type and the         *)
(* outcomes of the random source                                           *)

MaxLen == 3

Fitnesses == {0 - 1, 0, 1}

RECURSIVE SeqsUpTo(_, _)
SeqsUpTo(S, n) ==
  IF n = 0 THEN {<<>>}
  ELSE LET shorter == SeqsUpTo(S, n - 1)
       IN  shorter \cup {Append(q, x) : q \in {r \in shorter : Len(r) = n - 1},
                                        x \in S}

\* The genome plays no part in a selection: it is the index.
Populations ==
  {[k \in 1..Len(fs) |-> Evaluation(k - 1, fs[k])] :
     fs \in SeqsUpTo(Fitnesses, MaxLen)}

SelectionTypes ==
  {Chance, Weight}
    \cup {Ranking(max_rank) : max_rank \in 0..(MaxLen + 1)}
    \cup {Tournament(pool_size) : pool_size \in 0..MaxLen}

SelectInputs ==
  [evaluations : Populations, count : 0..(MaxLen + 1),
   selection_type : SelectionTypes, script : Scripts]

InitSelect ==
  /\ EngineInit
  /\ input \in SelectInputs
  /\ output = NoValue

ApplySelect ==
  /\ output = NoValue
  /\ output' = [kind |-> "select",
                result |-> select(input.evaluations, input.count,
                                  input.selection_type, input.script, 0)]
  /\ UNCHANGED <<input, engine>>

ApplySelectCouples ==
  /\ output = NoValue
  /\ output' = [kind |-> "select_couples",
                result |-> select_couples(input.evaluations, input.count,
                                          input.selection_type, input.script, 0)]
  /\ UNCHANGED <<input, engine>>

NextSelect == ApplySelect \/ ApplySelectCouples

SpecSelect == InitSelect /\ [][NextSelect]_vars

----------------------------------------------------------------------------
(* Reading a selection result *)

Distinct(s) == \A i, j \in 1..Len(s) : i # j => s[i] # s[j]

InRange(s, len) == \A i \in 1..Len(s) : 0 <= s[i] /\ s[i] < len

\* The number of draws a call made from the random source.
Draws(r) == r.pos

Selected == output.kind = "select"

----------------------------------------------------------------------------
(* C12: for every population, every requested_count <= len and every       *)
(* outcome of the random source, each of the four selection algorithms     *)
(* (rank with requested_count <= max_rank) returns exactly requested_count *)
(* indices, pairwise distinct and all in [0, len).  Selection by weight    *)
(* returns no index for requested_count = 1, and selection by tournament   *)
(* aborts for a pool_size of 0 or above the number of candidates left.     *)

C12_ExactDistinctInRange ==
  (/\ Selected
   /\ input.count <= Len(input.evaluations)
   /\ input.selection_type.type = "Ranking"
        => input.count <= input.selection_type.param) =>
    /\ output.result.kind = "Ok"
    /\ Len(output.result.idx) = input.count
    /\ Distinct(output.result.idx)
    /\ InRange(output.result.idx, Len(input.evaluations))

----------------------------------------------------------------------------
(* C13, as stated: for each of the four selection algorithms and whatever  *)
(* the other parameters, a requested_count greater than the population     *)
(* length fails with OutOfRange(requested_count, len).                     *)

TooMany == Selected /\ input.count > Len(input.evaluations)

C13_AlwaysOutOfRange ==
  TooMany =>
    output.result = SelErr("OutOfRange", input.count, Len(input.evaluations))

(* C13, amended: a requested_count greater than the population length      *)
(* fails with OutOfRange(requested_count, len) in selection by chance, by   *)
(* tournament and by weight whatever the other parameters, and in          *)
(* selection by rank when requested_count <= max_rank; selection by rank   *)
(* with requested_count > max_rank fails with                              *)
(* OutOfRank(requested_count, max_rank) instead.                           *)

C13_OutOfRange ==
  TooMany =>
    IF /\ input.selection_type.type = "Ranking"
       /\ input.count > input.selection_type.param
    THEN output.result = SelErr("OutOfRank", input.count,
                                input.selection_type.param)
    ELSE output.result = SelErr("OutOfRange", input.count,
                                Len(input.evaluations))

\* Three requested by weight out of two.
C13_Witness ==
  /\ Selected
  /\ input.selection_type = Weight
  /\ Len(input.evaluations) = 2
  /\ input.count = 3
  /\ output.result = SelErr("OutOfRange", 3, 2)

----------------------------------------------------------------------------
(* C14: for each of the four selection algorithms, requested_count = 0     *)
(* succeeds with an empty list and draws nothing from the random source,   *)
(* for every population, the empty one included, and every max_rank or     *)
(* pool_size.                                                              *)

C14_ZeroRequested ==
  (Selected /\ input.count = 0) =>
    /\ output.result.kind = "Ok"
    /\ output.result.idx = <<>>
    /\ Draws(output.result) = 0

\* Nothing requested of an empty population.
C14_Witness ==
  /\ Selected
  /\ input.count = 0
  /\ input.evaluations = <<>>
  /\ input.selection_type = Chance
  /\ output.result = SelOk(<<>>, 0)

----------------------------------------------------------------------------
(* C15, as stated: selection by rank is deterministic: for                 *)
(* requested_count <= min(max_rank, len) its result is the list of         *)
(* population indices sorted by descending fitness, truncated to           *)
(* requested_count, independently of the random source.                    *)

RankCase ==
  /\ Selected
  /\ input.selection_type.type = "Ranking"
  /\ input.count <= Min(input.selection_type.param, Len(input.evaluations))

\* A list of all the indices in which no index comes after one it beats,
\* equal fitnesses in index order.
IsSortedByFitnessDesc(s, evaluations) ==
  /\ Len(s) = Len(evaluations)
  /\ {s[k] : k \in 1..Len(s)} = 0..(Len(evaluations) - 1)
  /\ \A i, j \in 1..Len(s) : i < j => RankBefore(evaluations, s[i], s[j])

SortedTop(n) ==
  Take(CHOOSE s \in [1..Len(input.evaluations)
                       -> 0..(Len(input.evaluations) - 1)] :
         IsSortedByFitnessDesc(s, input.evaluations), n)

TopGroup ==
  LET top == SortedTop(Min(input.selection_type.param, Len(input.evaluations)))
  IN  {top[k] : k \in 1..Len(top)}

EveryDrawFirst == \A k \in 1..Len(input.script) : input.script[k] = 0

----------------------------------------------------------------------------
(* C16: selection by rank with requested_count > max_rank fails with       *)
(* OutOfRank(requested_count, max_rank), carrying the max_rank as passed   *)
(* by the caller (not clamped to the population length), and this check    *)
(* takes precedence: it is the error returned also when requested_count    *)
(* exceeds the population length.                                          *)

C16_OutOfRank ==
  (/\ Selected
   /\ input.selection_type.type = "Ranking"
   /\ input.count > input.selection_type.param) =>
    output.result = SelErr("OutOfRank", input.count, input.selection_type.param)

\* Three requested of one individual with max_rank 2: above both limits,
\* and max_rank is above the population length.
C16_Witness ==
  /\ Selected
  /\ input.selection_type = Ranking(2)
  /\ Len(input.evaluations) = 1
  /\ input.count = 3
  /\ output.result = SelErr("OutOfRank", 3, 2)

----------------------------------------------------------------------------
(* C17: in selection by tournament, at each rank i the pool consists of    *)
(* pool_size distinct population indices drawn from those not yet          *)
(* selected at ranks < i, and the index placed at rank i is the member of  *)
(* that pool with the highest fitness.  The pool holds the positions       *)
(* drawn among the candidates, not the candidates, and the winner is the   *)
(* pool member of lowest fitness.                                          *)

TournamentCase ==
  /\ Selected
  /\ input.selection_type.type = "Tournament"
  /\ 0 < input.count
  /\ input.count <= Len(input.evaluations)

Members(s) == {s[k] : k \in 1..Len(s)}

FitnessAt(index) == input.evaluations[index + 1].fitness

C17_TournamentPool ==
  TournamentCase =>
    LET run == TournamentRun(input.evaluations, input.count,
                             input.selection_type.param, input.script, 0)
    IN  \A k \in 1..Len(run.trace) :
          LET t == run.trace[k]
          IN  /\ Len(t.pool) = input.selection_type.param
              /\ Distinct(t.pool)
              /\ Members(t.pool) \subseteq Members(t.candidates)
              /\ Members(t.pool) \cap Members(t.selected) = {}
              /\ t.placed \in Members(t.pool)
              /\ \A m \in Members(t.pool) : FitnessAt(t.placed) >= FitnessAt(m)

----------------------------------------------------------------------------
(* C18: selection by weight with requested_count = 1 on a non-empty        *)
(* population returns the single index 0 and draws nothing from the        *)
(* random source.  It returns the empty list.                              *)

C18_WeightOne ==
  (/\ Selected
   /\ input.selection_type = Weight
   /\ input.count = 1
   /\ Len(input.evaluations) >= 1) =>
    /\ output.result.kind = "Ok"
    /\ output.result.idx = <<0>>
    /\ Draws(output.result) = 0

----------------------------------------------------------------------------
(* C19: select_couples(couples_count) returns exactly couples_count pairs  *)
(* for every selection type, each pair being the two indices of one        *)
(* selection call that requests exactly 2, so the two members of a pair    *)
(* are distinct in-range indices; the random source is consumed            *)
(* sequentially across the calls, and the first failing call makes the     *)
(* whole operation fail with its error.  With selection by tournament a    *)
(* call can abort instead of returning.                                    *)

Coupled == output.kind = "select_couples"

\* The k-th selection call of the operation on the arguments in,
\* k = 1, 2, ..., made where the call before it left the random source.
\* Defined while the calls before it succeed.
RECURSIVE CoupleCall(_, _)
CoupleCall(in, k) ==
  select(in.evaluations, 2, in.selection_type, in.script,
         IF k = 1 THEN 0 ELSE CoupleCall(in, k - 1).pos)

\* The calls that are made: up to the first one that does not succeed.
RECURSIVE CallsMade(_, _)
CallsMade(in, k) ==
  IF k > in.count THEN in.count
  ELSE IF CoupleCall(in, k).kind # "Ok" THEN k
  ELSE CallsMade(in, k + 1)

C19_Couples ==
  Coupled =>
    LET made == CallsMade(input, 1)
        failed == made > 0 /\ CoupleCall(input, made).kind # "Ok"
    IN  IF failed
        THEN /\ output.result.kind = "Err"
             /\ output.result = CoupleCall(input, made)
        ELSE /\ output.result.kind = "Ok"
             /\ Len(output.result.idx) = input.count
             /\ \A k \in 1..input.count :
                  /\ output.result.idx[k]
                       = <<CoupleCall(input, k).idx[1],
                           CoupleCall(input, k).idx[2]>>
                  /\ output.result.idx[k][1] # output.result.idx[k][2]
                  /\ InRange(output.result.idx[k], Len(input.evaluations))
             /\ input.count > 0 =>
                  Draws(output.result) = Draws(CoupleCall(input, input.count))

----------------------------------------------------------------------------
(* The specification of resolve_settings as a pure function of a           *)
(* validated configuration                                                 *)

PopulationSamples == (1..MaxPop) \cup {7, 64}

ResolveParams ==
  {None} \cup
    {Some(GeneticRenewalParam(m, r, t)) :
       m \in {None, Some(0), Some(50)},
       r \in {x \in RatioSamples : InUnitRange(x)},
       t \in {Chance, Tournament(2)}}

\* The configurations that pass EvolutionConfig::validate.
ResolveInputs ==
  {c \in {EvolutionConfig(n, r) :
            n \in PopulationSamples,
            r \in {None} \cup {Some(GenerationRenewalConfig(a, b)) :
                                 a \in ResolveParams, b \in ResolveParams}} :
     Validate(c)}

InitResolve ==
  /\ EngineInit
  /\ input \in ResolveInputs
  /\ output = NoValue

ApplyResolve ==
  /\ output = NoValue
  /\ output' = [kind |-> "Resolved",
                settings |-> resolve_settings(input.generation_renewal_config,
                                              input.population_size)]
  /\ UNCHANGED <<input, engine>>

NextResolve == ApplyResolve

SpecResolve == InitResolve /\ [][NextResolve]_vars

----------------------------------------------------------------------------
(* C20: the genetic pool resolver gives each configured pool               *)
(* count = floor(ratio * population_size), an absent pool count 0, and     *)
(* random_count = population_size - cloning count - crossover count;       *)
(* hence for population 64 with a single pool of ratio 0.5 random_count    *)
(* is 32, with no renewal config random_count equals population_size, and  *)
(* an unset mutation rate resolves to 0.01.                                *)

\* The pool parameters of the configuration under check: cloning, crossover.
ConfiguredParams ==
  IF input.generation_renewal_config.some
  THEN <<input.generation_renewal_config.val.cloning,
         input.generation_renewal_config.val.crossover>>
  ELSE <<None, None>>

\* count is the floor of ratio * population_size, the ratio in hundredths.
IsFloor(count, ratio, population_size) ==
  /\ count * RatioOne <= ratio * population_size
  /\ ratio * population_size < (count + 1) * RatioOne

PoolResolved(pool, param) ==
  IF param.some
  THEN /\ IsFloor(pool.count, param.val.ratio, input.population_size)
       /\ pool.selection_type = param.val.selection_type
       /\ IF param.val.mutation_rate.some
          THEN pool.mutation_rate = param.val.mutation_rate.val
          ELSE pool.mutation_rate = 1   \* 0.01, in hundredths
  ELSE pool.count = 0

C20_Resolver ==
  output.kind = "Resolved" =>
    LET s == output.settings
        single == ConfiguredParams[1].some # ConfiguredParams[2].some
        only == IF ConfiguredParams[1].some THEN ConfiguredParams[1]
                ELSE ConfiguredParams[2]
    IN  /\ PoolResolved(s.cloning_pool, ConfiguredParams[1])
        /\ PoolResolved(s.crossover_pool, ConfiguredParams[2])
        /\ s.randoms_count >= 0
        /\ s.randoms_count + s.cloning_pool.count + s.crossover_pool.count
             = input.population_size
        /\ (single /\ input.population_size = 64 /\ only.val.ratio = 50)
             => s.randoms_count = 32
        /\ ~input.generation_renewal_config.some
             => s.randoms_count = input.population_size

\* Population 7, cloning 0.5 with no mutation rate, crossover 0.25:
\* 3 clones, 1 offspring, 3 random genomes.
C20_Witness ==
  /\ output.kind = "Resolved"
  /\ input.population_size = 7
  /\ ConfiguredParams[1] = Some(GeneticRenewalParam(None, 50, Chance))
  /\ ConfiguredParams[2] = Some(GeneticRenewalParam(Some(0), 25, Chance))
  /\ output.settings.cloning_pool = GeneticPool(3, 1, Chance)
  /\ output.settings.crossover_pool = GeneticPool(1, 0, Chance)
  /\ output.settings.randoms_count = 3

----------------------------------------------------------------------------
(* C21: each renewal replaces the snapshot with exactly                    *)
(* cloning_pool.count clones of selected individuals, then exactly         *)
(* crossover_pool.count offspring, then exactly randoms_count fresh        *)
(* genomes, every one with fitness 0                                       *)

\* The settings of the run in progress (run, lines 140-141).
Settings ==
  resolve_settings(call.config.generation_renewal_config,
                   call.config.population_size)

\* A renewal that replaces the snapshot.
Renewal == pc = "renew" /\ pc' = "loop_top"

GenomesOf(evaluations) ==
  [k \in 1..Len(evaluations) |-> evaluations[k].genome]

\* The clones are left unmutated when the cloning rate is 0: each is then
\* the genome of an individual of the generation renewed.
ClonesOfGeneration(clones, evaluations, pool) ==
  pool.mutation_rate = 0 =>
    \A k \in 1..Len(clones) :
      \E i \in 1..Len(evaluations) : clones[k] = evaluations[i].genome

C21_Step ==
  Renewal =>
    LET new == snapshot'.evaluations
        clones == Settings.cloning_pool.count
        offsprings == Settings.crossover_pool.count
        randoms == Settings.randoms_count
    IN  /\ Len(new) = clones + offsprings + randoms
        /\ \A k \in 1..Len(new) : new[k].fitness = 0 /\ new[k].genome \in Genomes
        /\ ClonesOfGeneration(Take(GenomesOf(new), clones),
                              snapshot.evaluations, Settings.cloning_pool)

\* C21: every renewal makes a generation of cloning_pool.count clones,
\* crossover_pool.count offspring and randoms_count fresh genomes, in that
\* order, all of fitness 0.
C21_Renewal == [][C21_Step]_vars

----------------------------------------------------------------------------
(* C22: start_from seeds from the supplied snapshot: the first generation  *)
(* evaluated is the supplied genomes in their order, and the first call of *)
(* the completion predicate receives the supplied generation number        *)

\* From the seeding to the first call of the completion predicate.
FirstGeneration ==
  /\ pc \in {"set_running", "running_notify", "loop_top", "halted_notify",
             "generation_created", "evaluate", "evaluated", "check_complete"}
  /\ predCalls = <<>>

C22_Step ==
  call.snapshot.some =>
    /\ (pc = "seed" /\ pc' # "seed") => snapshot' \in SuppliedSnapshots
    /\ FirstGeneration =>
         /\ snapshot'.generation = snapshot.generation
         /\ GenomesOf(snapshot'.evaluations) = GenomesOf(snapshot.evaluations)
    /\ (FirstGeneration /\ predCalls' # <<>>) =>
         /\ predCalls' = <<[generation |-> snapshot.generation,
                            answer |-> predCalls'[1].answer]>>
         /\ fitnesses = [k \in 1..Len(snapshot.evaluations) |->
                           Evaluate(snapshot.evaluations[k].genome)]

\* C22: a run of start_from takes the caller's snapshot as it is, keeps its
\* genomes and its generation number up to the first call of the completion
\* predicate, and that call receives the fitnesses of exactly these genomes
\* and this generation number.
C22_SuppliedSnapshot == [][C22_Step]_vars

\* The first call of the predicate of a start_from run whose snapshot has
\* not population_size genomes.
C22_Witness ==
  /\ call.snapshot.some
  /\ Len(predCalls) = 1
  /\ pc \in {"renew", "set_completed"}
  /\ Len(snapshot.evaluations) # call.config.population_size
  /\ snapshot.generation = 1

----------------------------------------------------------------------------
(* The Subject on its own: registrations and notifications of an engine    *)
(* that is not running                                                     *)

value_eq(this, that) == ListenerOf[this] = ListenerOf[that]

\* Rc::ptr_eq: the same allocation.
ptr_eq(this, that) == this = that

\* Lines 33-35.
register_observer(observer) ==
  /\ Len(observers) < MaxObservers
  /\ observers' = Append(observers, observer)
  /\ UNCHANGED <<status, snapshot, events, pc, call, fitnesses, predCalls,
                 result, starts, hpc, hres, updates, lock, callers, pure>>

\* Lines 37-39: retain(|obs| !Rc::ptr_eq(obs, &observer)).
unregister_observer(observer) ==
  /\ observers' = SelectSeq(observers, LAMBDA obs : ~ptr_eq(obs, observer))
  /\ UNCHANGED <<status, snapshot, events, pc, call, fitnesses, predCalls,
                 result, starts, hpc, hres, updates, lock, callers, pure>>

\* The events the engine notifies.
EventTypes == {GenerationCreated, Evaluated, StatusChanged("Running")}

\* One call of notify_observers by the engine.
Notification(event) ==
  /\ Len(events) < MaxNotify
  /\ notify_observers(event)
  /\ UNCHANGED <<status, snapshot, pc, call, fitnesses, predCalls, result,
                 starts, hpc, hres, observers, lock, callers, pure>>

NextSubject ==
  \/ \E observer \in Handles : register_observer(observer)
  \/ \E observer \in Handles : unregister_observer(observer)
  \/ \E event \in EventTypes : Notification(event)

SpecSubject == Init /\ [][NextSubject]_vars

----------------------------------------------------------------------------
(* C23: a notification delivers the event once per registration to every   *)
(* listener registered at that moment, synchronously and in registration   *)
(* order                                                                   *)

\* The number of registrations of the handle h, and of update calls made
\* on it with the event.
RegistrationsOf(h) == Cardinality({k \in 1..Len(observers) : observers[k] = h})

UpdatesOf(calls, h, event) ==
  Cardinality({k \in 1..Len(calls) : calls[k] = Update(h, event)})

C23_Step ==
  events' # events =>
    LET event == events'[Len(events')]
    IN  /\ events' = Append(events, event)
        /\ observers' = observers
        /\ Len(updates') = Len(observers)
        /\ \A k \in 1..Len(observers) :
             updates'[k] = Update(observers[k], event)
        /\ \A h \in Handles :
             UpdatesOf(updates', h, event) = RegistrationsOf(h)

\* C23: the step that notifies an event calls update with that event on
\* the registrations of that moment, one call per registration, in
\* registration order, and all the calls are made within the step.
C23_Notification == [][C23_Step]_vars

\* A notification delivered twice to a handle registered twice, with
\* another listener in between.
C23_Witness ==
  /\ Len(updates) = 3
  /\ updates[1].observer = updates[3].observer
  /\ updates[2].observer # updates[1].observer
  /\ updates[1].event = StatusChanged("Running")
  /\ events[Len(events)] = StatusChanged("Running")

----------------------------------------------------------------------------
(* C24: unregister_observer(h) removes every registration of the handle h  *)
(* and nothing else; a handle that is not registered changes nothing       *)

RECURSIVE Without(_, _)
Without(s, h) ==
  IF s = <<>>
  THEN <<>>
  ELSE IF Head(s) = h
       THEN Without(Tail(s), h)
       ELSE <<Head(s)>> \o Without(Tail(s), h)

Registered(h) == \E k \in 1..Len(observers) : observers[k] = h

\* A step that registers nothing and changes the registrations.
Unregistration ==
  /\ observers' # observers
  /\ \A h \in Handles : observers' # Append(observers, h)

C24_Step ==
  /\ Unregistration =>
       \E h \in Handles : Registered(h) /\ observers' = Without(observers, h)
  /\ \A h \in Handles :
       ~Registered(h) =>
         SelectSeq(observers, LAMBDA obs : ~ptr_eq(obs, h)) = observers

\* C24: a step that takes registrations away takes away all those of one
\* handle and leaves the others as they were, in their order; the
\* unregistration of a handle that is not registered leaves the list as
\* it is.
C24_Unregister == [][C24_Step]_vars

\* The handle registered twice has been unregistered after a notification;
\* the listener equal by value, registered through another handle, stays.
C24_Witness ==
  /\ Len(updates) = 3
  /\ updates[1].observer = "a"
  /\ updates[2].observer = "b"
  /\ updates[3].observer = "a"
  /\ ListenerOf["a"] = ListenerOf["b"]
  /\ observers = <<"b">>

----------------------------------------------------------------------------
(* change_status on its own: callers that take the status mutex, check and *)
(* update under it, release it and notify                                  *)

\* What the engine asks of change_status: run at lines 131-134, 152,
\* 156-159 and 181-184, halt at lines 57-60.
StatusCalls ==
  { StatusCall("Initializing", {"New"}),
    StatusCall("Running", EvolutionStatus),
    StatusCall("Halted", {"Halting"}),
    StatusCall("Completed", EvolutionStatus),
    StatusCall("Halting", {"Running"}) }

\* Line 101: self.status.lock() returns once the mutex is free.
LockStatus(c) ==
  /\ callers[c].pc = "ready"
  /\ lock = Free
  /\ lock' = c
  /\ \E asked \in StatusCalls :
       callers' = [callers EXCEPT ![c] = [pc |-> "locked", call |-> asked,
                                          result |-> FALSE]]
  /\ UNCHANGED <<status, snapshot, events, pc, call, fitnesses, predCalls,
                 result, starts, hpc, hres, observers, updates, pure>>

CheckAndSetHoldingLock(c) ==
  /\ callers[c].pc = "locked"
  /\ lock = c
  /\ IF CanChange(status, callers[c].call.new_status,
                  callers[c].call.additional_check)
     THEN /\ status' = callers[c].call.new_status
          /\ UNCHANGED lock
          /\ callers' = [callers EXCEPT ![c].pc = "notify"]
     ELSE /\ lock' = Free
          /\ callers' = [callers EXCEPT ![c].pc = "done", ![c].result = FALSE]
          /\ UNCHANGED status
  /\ UNCHANGED <<snapshot, events, pc, call, fitnesses, predCalls, result,
                 starts, hpc, hres, observers, updates, pure>>

CheckAndSetUnconditional(c) ==
  /\ callers[c].pc = "locked"
  /\ lock = c
  /\ lock' = Free
  /\ IF CanChange(status, callers[c].call.new_status, EvolutionStatus)
     THEN /\ status' = callers[c].call.new_status
          /\ callers' = [callers EXCEPT ![c].pc = "notify"]
     ELSE /\ callers' = [callers EXCEPT ![c].pc = "done", ![c].result = FALSE]
          /\ UNCHANGED status
  /\ UNCHANGED <<snapshot, events, pc, call, fitnesses, predCalls, result,
                 starts, hpc, hres, observers, updates, pure>>

\* Lines 103-108: the check and the update; the guard is dropped at line
\* 108 before the notification, or with the closure that was not called.
CheckAndSet(c) ==
  /\ callers[c].pc = "locked"
  /\ lock = c
  /\ lock' = Free
  /\ IF CanChange(status, callers[c].call.new_status,
                  callers[c].call.additional_check)
     THEN /\ status' = callers[c].call.new_status
          /\ callers' = [callers EXCEPT ![c].pc = "notify"]
     ELSE /\ callers' = [callers EXCEPT ![c].pc = "done", ![c].result = FALSE]
          /\ UNCHANGED status
  /\ UNCHANGED <<snapshot, events, pc, call, fitnesses, predCalls, result,
                 starts, hpc, hres, observers, updates, pure>>

\* Lines 109-112: the notification, and the call returns true.
NotifyChanged(c) ==
  /\ callers[c].pc = "notify"
  /\ notify_observers(StatusChanged(callers[c].call.new_status))
  /\ callers' = [callers EXCEPT ![c].pc = "done", ![c].result = TRUE]
  /\ UNCHANGED <<status, snapshot, pc, call, fitnesses, predCalls, result,
                 starts, hpc, hres, observers, lock, pure>>

NextStatus ==
  \/ \E c \in Callers : LockStatus(c)
  \/ \E c \in Callers : CheckAndSet(c)
  \/ \E c \in Callers : NotifyChanged(c)

\* A listener is registered before the calls are made.
InitStatus ==
  /\ Constructed
  /\ observers = <<"a">>
  /\ input = NoValue
  /\ output = NoValue

SpecStatus == InitStatus /\ [][NextStatus]_vars

----------------------------------------------------------------------------
(* C25: the status lock is released before StatusChanged is delivered: no  *)
(* listener is notified by a call that holds the lock                      *)

\* The caller c delivers its notification in this step.
Delivers(c) == callers[c].pc = "notify" /\ callers'[c].pc = "done"

C25_Step ==
  /\ \A c \in Callers :
       callers[c].pc = "notify" => lock # c /\ lock' # c
  /\ updates' # updates =>
       \E c \in Callers :
         /\ Delivers(c)
         /\ updates' = <<Update(observers[1],
                                StatusChanged(callers[c].call.new_status))>>

\* C25: from the update of the status to the return of the call, the
\* notification included, the caller that changed the status does not hold
\* the lock.
C25_LockReleased == [][C25_Step]_vars

\* The listener has been notified of a change of the status while another
\* caller was taking the lock.
C25_Witness ==
  \E c \in Callers :
    /\ callers[c].pc = "done"
    /\ callers[c].result
    /\ updates = <<Update("a", StatusChanged(callers[c].call.new_status))>>
    /\ lock \notin {Free, c}

----------------------------------------------------------------------------
(* C29: change_status changes the status to the target and fires exactly   *)
(* one StatusChanged(target) if and only if the current status differs     *)
(* from the target and the precondition holds on it; otherwise it returns  *)
(* false, leaves the status unchanged and fires no event                   *)

\* The caller c makes its check in this step.
Checks(c) == callers[c].pc = "locked" /\ callers'[c].pc # "locked"

Returned(c, answer) == callers[c].pc = "done" /\ callers[c].result = answer

C29_Step ==
  \A c \in Callers :
    LET asked == callers[c].call
    IN  /\ Checks(c) =>
             /\ events' = events
             /\ IF status # asked.new_status /\ status \in asked.additional_check
                THEN status' = asked.new_status /\ callers'[c].pc = "notify"
                ELSE status' = status /\ Returned(c, FALSE)'
        /\ callers[c].pc = "notify" /\ callers'[c] # callers[c] =>
             /\ events' = Append(events, StatusChanged(asked.new_status))
             /\ status' = status
             /\ Returned(c, TRUE)'
        /\ Returned(c, TRUE) \/ Returned(c, FALSE) =>
             callers'[c] = callers[c]

\* Every event is the one event of a call that returned true.
OneEventPerChange ==
  Len(events) = Cardinality({c \in Callers : Returned(c, TRUE)})

\* C29: a call whose target differs from the status and whose precondition
\* holds on it sets the status to the target, fires StatusChanged(target)
\* once and returns true; any other call returns false with the status and
\* the events as they were.
C29_GuardedChange == [][C29_Step /\ OneEventPerChange']_vars

\* One call has changed the status and fired its event; another, whose
\* target differs from the status, was refused by its precondition.
C29_Witness ==
  \E c, d \in Callers :
    /\ Returned(c, TRUE)
    /\ status = callers[c].call.new_status
    /\ events = <<StatusChanged(status)>>
    /\ Returned(d, FALSE)
    /\ callers[d].call = StatusCall("Halted", {"Halting"})

----------------------------------------------------------------------------
(* C26: the check and the update of a status change are one step under the *)
(* lock: of the halt requests that race on a Running engine exactly one    *)
(* returns true, and exactly one StatusChanged(Halting) is fired           *)

AcceptedHalts == {k \in HaltCalls : HaltAccepted(k)}

ReturnedTrue == {k \in HaltCalls : hpc[k] = "done" /\ hres[k]}

\* The halt request k makes its check in this step.
HaltChecks(k) == hpc[k] = "ready" /\ hpc'[k] # "ready"

C26_Step ==
  \A k \in HaltCalls :
    HaltChecks(k) =>
      IF status = "Running"
      THEN status' = "Halting" /\ hpc'[k] = "notify"
      ELSE status' = status /\ hpc'[k] = "done" /\ ~hres'[k]

C26_OneHalt ==
  /\ Cardinality(AcceptedHalts) <= 1
  /\ status \in {"Halting", "Halted"} => Cardinality(AcceptedHalts) = 1
  /\ CountEvent(StatusChanged("Halting")) = Cardinality(ReturnedTrue)

\* C26: a halt request is accepted exactly when it finds the status Running
\* and the status is Halting as soon as it is accepted, so once a request
\* has found the engine Running exactly one is accepted, the others return
\* false, and StatusChanged(Halting) is fired once, by the accepted request.
C26_AtomicHalt == [][C26_Step /\ C26_OneHalt']_vars

\* Two halt requests have raced on a Running engine: the first returned
\* true, the second found Halting and returned false.
C26_Witness ==
  /\ status = "Halting"
  /\ hpc[1] = "done" /\ hres[1]
  /\ hpc[2] = "done" /\ ~hres[2]
  /\ CountEvent(StatusChanged("Halting")) = 1

----------------------------------------------------------------------------
(* get_clones and get_offsprings on their own *)

RenewPools ==
  {GeneticPool(count, mutation_rate, selection_type) :
     count \in 0..2, mutation_rate \in {0, 50},
     selection_type \in {Chance, Weight, Ranking(2), Tournament(1)}}

RenewInputs ==
  [evaluations : Populations, pool : RenewPools, script : Scripts]

InitRenew ==
  /\ EngineInit
  /\ input \in RenewInputs
  /\ output = NoValue

\* What the call returns and the strategy calls made for each individual.
Made(kind, outcome) ==
  IF outcome.sel.kind = "Ok"
  THEN {[kind |-> kind, sel |-> outcome.sel, made |-> m] : m \in outcome.made}
  ELSE {[kind |-> kind, sel |-> outcome.sel, made |-> <<>>]}

ApplyClones ==
  /\ output = NoValue
  /\ output' \in Made("get_clones",
                      get_clones(input.evaluations, input.pool, input.script, 0))
  /\ UNCHANGED <<input, engine>>

ApplyOffsprings ==
  /\ output = NoValue
  /\ output' \in Made("get_offsprings",
                      get_offsprings(input.evaluations, input.pool,
                                     input.script, 0))
  /\ UNCHANGED <<input, engine>>

NextRenew == ApplyClones \/ ApplyOffsprings

SpecRenew == InitRenew /\ [][NextRenew]_vars

----------------------------------------------------------------------------
(* C28: with a mutation rate of 0 the mutation operation is never called:  *)
(* a clone is the genome of its selected individual and an offspring is    *)
(* the crossover result; with a rate > 0 it is applied exactly once, with  *)
(* that rate, to each clone or offspring; crossover is applied once per    *)
(* offspring                                                               *)

\* The calls of one operation among those made for the individuals.
CallsOf(made, op) ==
  {<<k, i>> \in (1..Len(made)) \X (1..2) :
     i <= Len(made[k].calls) /\ made[k].calls[i].op = op}

GenomeAt(index) == input.evaluations[index + 1].genome

CloneAsClaimed(clone, index) ==
  IF input.pool.mutation_rate = 0
  THEN clone.calls = <<>> /\ clone.genome = GenomeAt(index)
  ELSE clone.calls = <<MutateCall(GenomeAt(index), input.pool.mutation_rate,
                                  clone.genome)>>

OffspringAsClaimed(offspring, couple) ==
  /\ Len(offspring.calls) >= 1
  /\ offspring.calls[1].op = "crossover"
  /\ offspring.calls[1].given = <<GenomeAt(couple[1]), GenomeAt(couple[2])>>
  /\ IF input.pool.mutation_rate = 0
     THEN /\ Len(offspring.calls) = 1
          /\ offspring.genome = offspring.calls[1].result
     ELSE offspring.calls =
            <<offspring.calls[1],
              MutateCall(offspring.calls[1].result, input.pool.mutation_rate,
                         offspring.genome)>>

\* C28: the strategy calls behind every clone and every offspring returned
\* are those the mutation rate of the pool asks for: no mutation at rate 0,
\* one mutation with the pool's rate otherwise, one crossover per offspring.
C28_MutationRate ==
  (output.kind \in {"get_clones", "get_offsprings"} /\ output.sel.kind = "Ok") =>
    LET made == output.made
        idx == output.sel.idx
    IN  /\ Len(made) = Len(idx)
        /\ \A k \in 1..Len(made) :
             IF output.kind = "get_clones"
             THEN CloneAsClaimed(made[k], idx[k])
             ELSE OffspringAsClaimed(made[k], idx[k])
        /\ Cardinality(CallsOf(made, "mutate"))
             = IF input.pool.mutation_rate = 0 THEN 0 ELSE Len(made)
        /\ Cardinality(CallsOf(made, "crossover"))
             = IF output.kind = "get_clones" THEN 0 ELSE Len(made)

\* Two clones of a pool of rate > 0, the first one changed by its mutation.
C28_Witness ==
  /\ output.kind = "get_clones"
  /\ output.sel.kind = "Ok"
  /\ input.pool.mutation_rate > 0
  /\ Len(output.made) = 2
  /\ output.made[1].genome # GenomeAt(output.sel.idx[1])

----------------------------------------------------------------------------
(* C27: snapshot() is the default empty snapshot until a start or          *)
(* start_from call has passed the validation and the New guard, also       *)
(* after a start that failed with InvalidSettings                          *)

\* Lines 52-54: a clone of the snapshot field.
snapshot_read == snapshot

\* No call has passed the New guard yet.
NotStarted == status = "New"

\* C27: as long as the status is New, and then up to the seeding of the
\* run, snapshot() returns generation 0 and no evaluation.
C27_DefaultSnapshot ==
  (NotStarted \/ pc \in {"init_notify", "seed"}) =>
    /\ snapshot_read = DefaultSnapshot
    /\ snapshot_read.generation = 0
    /\ snapshot_read.evaluations = <<>>

\* Two calls have failed with InvalidSettings on an engine that is still
\* New.
C27_Witness ==
  /\ NotStarted
  /\ starts = MaxStarts
  /\ result = Err("InvalidSettings", "-")
  /\ pc = "idle"
  /\ snapshot_read = DefaultSnapshot

----------------------------------------------------------------------------
(* C30: Halted and Completed are terminal: once the status is one of them  *)
(* no start, start_from or halt changes it, and no GenerationCreated,      *)
(* Evaluated or StatusChanged event is fired afterwards                    *)

Terminal == {"Halted", "Completed"}

\* The event of the change to the terminal status itself, which the run
\* fires right after the change.
OwnNotification ==
  /\ pc \in {"halted_notify", "completed_notify"}
  /\ events' = Append(events, StatusChanged(status))

C30_Step ==
  status \in Terminal =>
    /\ status' = status
    /\ events' # events => OwnNotification

\* C30: a terminal status never changes, and once it is set the only event
\* fired is the StatusChanged of that very change.
C30_Terminal == [][C30_Step]_vars

----------------------------------------------------------------------------
(* C31: a run that ends Halted returns the snapshot of the loop boundary   *)
(* where Halting was observed: once a halt is accepted at most one more    *)
(* generation is evaluated and at most one more renewal is made, and after *)
(* a renewal every fitness of the returned snapshot is 0                   *)

\* How far the run stands from the next loop boundary: every step of the
\* loop body lowers it, the boundary alone raises it.
LoopRank ==
  [set_running |-> 9, running_notify |-> 8, generation_created |-> 7,
   evaluate |-> 6, evaluated |-> 5, check_complete |-> 4, renew |-> 3,
   set_completed |-> 3, loop_top |-> 2, halted_notify |-> 1,
   completed_notify |-> 1, return |-> 0]

InLoop == pc \in DOMAIN LoopRank

AllFitnessZero(s) ==
  \A k \in 1..Len(s.evaluations) : s.evaluations[k].fitness = 0

C31_Step ==
  /\ (status = "Halting" /\ status' = "Halting" /\ InLoop /\ InLoop') =>
       LoopRank[pc'] <= LoopRank[pc]
  /\ (status = "Halting" /\ InLoop /\ pc = "loop_top" /\ pc' # pc) =>
       status' = "Halted" /\ snapshot' = snapshot
  /\ (status # "Halted" /\ status' = "Halted") =>
       status = "Halting" /\ pc = "loop_top"
  /\ status = "Halted" => snapshot' = snapshot
  /\ (status = "Halted" /\ pc = "return" /\ pc' # pc) =>
       /\ result' = Ok(snapshot)
       /\ predCalls # <<>> => AllFitnessZero(snapshot)

\* C31: while the status is Halting the run only moves towards the next
\* loop boundary, so it evaluates and renews at most once more; at the
\* boundary it becomes Halted, and from there to the return of the run the
\* snapshot stays as it is and is what the run returns, with every fitness 0
\* if the run has renewed.
C31_HaltedSnapshot == [][C31_Step]_vars

\* A run halted while its first generation was being evaluated has renewed
\* once and returned the unevaluated generation 1.
C31_Witness ==
  /\ status = "Halted"
  /\ pc = "idle"
  /\ result.kind = "Ok"
  /\ Len(predCalls) = 1
  /\ result.snapshot.generation = predCalls[1].generation + 1
  /\ Len(result.snapshot.evaluations) = 2
  /\ AllFitnessZero(result.snapshot)
  /\ CountEvent(Evaluated) = 1

----------------------------------------------------------------------------
(* Continuing a halted run: the caller builds a fresh engine and hands the *)
(* snapshot the halted run returned to start_from                          *)

\* EvolutionEngine::default() followed by start_from(config, S), S being the
\* snapshot of the run that ended Halted.  predCalls, the record of the
\* caller's completion predicate, runs on over both engines; halt requests
\* still in flight belong to the engine left behind.
ResumeOnFresh ==
  /\ UNCHANGED <<apart, updates>>
  /\ pc = "idle"
  /\ status = "Halted"
  /\ result.kind = "Ok"
  /\ starts < MaxStarts
  /\ \A k \in HaltCalls : hpc[k] # "notify"
  /\ \E config \in Configs :
       /\ Validate(config)
       /\ call' = [config |-> config, snapshot |-> Some(result.snapshot)]
  /\ starts' = starts + 1
  /\ status' = "New"
  /\ snapshot' = DefaultSnapshot
  /\ events' = <<>>
  /\ fitnesses' = <<>>
  /\ result' = NoResult
  /\ pc' = "init"
  /\ UNCHANGED <<predCalls, hpc, hres>>

NextResume ==
  \/ Next
  \/ ResumeOnFresh

SpecResume == Init /\ [][NextResume]_vars

(* C32: continuing a halted run loses and repeats nothing: the generation  *)
(* numbers passed to the completion predicate over the halted run and the  *)
(* run resumed from its snapshot are consecutive                           *)

\* The generation number the first call of the predicate is due.
FirstDue == IF call.snapshot.some THEN call.snapshot.val.generation ELSE 0

C32_Step ==
  predCalls' # predCalls =>
    LET n == Len(predCalls)
    IN /\ Len(predCalls') = n + 1
       /\ \A k \in 1..n : predCalls'[k] = predCalls[k]
       /\ predCalls'[n + 1].generation =
            IF n = 0 THEN FirstDue ELSE predCalls[n].generation + 1

\* C32: every call of the completion predicate, in the halted run or in the
\* run resumed from its snapshot on a fresh engine, receives the generation
\* number that follows the one of the call before it, and the first call of
\* all receives 0 after start (the supplied number after start_from).
C32_Resume == [][C32_Step]_vars

\* A run by start halted after its first renewal, resumed from the snapshot
\* it returned and completed: the predicate has seen 0, 1, 2.
C32_Witness ==
  /\ status = "Completed"
  /\ call.snapshot.some
  /\ call.snapshot.val.generation = 1
  /\ Len(call.snapshot.val.evaluations) = 2
  /\ Len(predCalls) = 3
  /\ \A k \in 1..3 : predCalls[k].generation = k - 1
  /\ ~HasEvent(StatusChanged("Halting"))

----------------------------------------------------------------------------
(* C33: the generation counter of the live snapshot starts at 0 for start  *)
(* (at the supplied value for start_from), never decreases during a run,   *)
(* grows by exactly 1 at each renewal and at no other time, and so equals  *)
(* the initial value plus the number of renewals completed                 *)

\* The run has seeded its snapshot and has not returned.
Seeded ==
  pc \in {"set_running", "running_notify", "loop_top", "halted_notify",
          "generation_created", "evaluate", "evaluated", "check_complete",
          "renew", "set_completed", "completed_notify", "return"}

\* A renewal follows each call of the predicate but the one that completes
\* the run, and the last one while its renewal is still to be made.
RenewalsCompleted ==
  IF predCalls = <<>> THEN 0
  ELSE IF pc \in {"renew", "set_completed", "completed_notify"}
          \/ status = "Completed"
       THEN Len(predCalls) - 1
       ELSE Len(predCalls)

Renewed == pc = "renew" /\ pc' = "loop_top"

C33_Step ==
  /\ (pc = "seed" /\ pc' # pc) => snapshot'.generation = FirstDue
  /\ Renewed => snapshot'.generation = snapshot.generation + 1
  /\ (Seeded /\ ~Renewed) => snapshot'.generation = snapshot.generation
  /\ Seeded' => snapshot'.generation = FirstDue' + RenewalsCompleted'

\* C33: the seeding sets the counter to 0 or to the supplied number, every
\* step of the run but a renewal leaves it as it is, a renewal adds exactly
\* 1, and at every moment of the run it is the initial number plus the
\* renewals completed.
C33_GenerationCounter == [][C33_Step]_vars

\* A start_from run from generation 1 that has renewed once.
C33_Witness ==
  /\ Seeded
  /\ call.snapshot.some
  /\ call.snapshot.val.generation = 1
  /\ RenewalsCompleted = 1
  /\ snapshot.generation = 2

----------------------------------------------------------------------------
(* C34: in a run started with start and a valid configuration, every       *)
(* generation that is evaluated and the returned snapshot hold exactly     *)
(* population_size evaluations, for every selection type and pool count    *)

\* The run in progress was started with start.
StartedPlain == Seeded /\ ~call.snapshot.some

C34_Step ==
  /\ (StartedPlain /\ pc = "evaluate" /\ pc' # pc) =>
       /\ Len(fitnesses') = call.config.population_size
       /\ Len(snapshot.evaluations) = call.config.population_size
  /\ (StartedPlain /\ pc = "return" /\ pc' # pc) =>
       /\ result'.kind = "Ok"
       /\ Len(result'.snapshot.evaluations) = call.config.population_size

\* C34: each batch of evaluations of a run started with start has
\* population_size fitnesses for population_size genomes, and the snapshot
\* the run returns has population_size evaluations.
C34_PopulationSize == [][C34_Step]_vars

----------------------------------------------------------------------------
(* C35: selection by chance is a partial Fisher-Yates shuffle: it draws    *)
(* min(requested_count, len - 1) times, the i-th draw being a position in  *)
(* [i, len), and returns the first requested_count entries of the identity *)
(* permutation after swapping position i with the i-th drawn position      *)

ChanceCase ==
  /\ Selected
  /\ input.selection_type.type = "Chance"
  /\ input.count <= Len(input.evaluations)

\* The position the i-th draw (from 0) yields when it is made in [i, len).
DrawnPosition(i) == GenRange(input.script, i, i, Len(input.evaluations))

\* The permutation after the swaps of positions i, i + 1, .., n - 1.
RECURSIVE AfterSwaps(_, _, _)
AfterSwaps(perm, i, n) ==
  IF i >= n THEN perm
  ELSE AfterSwaps(Swap(perm, i, DrawnPosition(i)), i + 1, n)

\* A count on usize: none for an empty population.
DrawsDue ==
  IF input.count = 0 THEN 0
  ELSE Min(input.count, Len(input.evaluations) - 1)

\* C35: for requested_count <= len selection by chance draws
\* min(requested_count, len - 1) times, each draw i falls in [i, len), and
\* the result is the head of the identity permutation after swapping each
\* position i with the position drawn for it, in order.
C35_PartialShuffle ==
  ChanceCase =>
    /\ output.result.kind = "Ok"
    /\ Draws(output.result) = DrawsDue
    /\ \A i \in 0..(DrawsDue - 1) :
         i <= DrawnPosition(i) /\ DrawnPosition(i) < Len(input.evaluations)
    /\ output.result.idx =
         Take(AfterSwaps(Iota(Len(input.evaluations)), 0, DrawsDue),
              input.count)

\* Three of three requested: two draws, both moving an index, the third
\* place left to the last index standing.
C35_Witness ==
  /\ ChanceCase
  /\ Len(input.evaluations) = 3
  /\ input.count = 3
  /\ Draws(output.result) = 2
  /\ output.result.idx = <<1, 2, 0>>

----------------------------------------------------------------------------
(* C36: in selection by weight with requested_count >= 2, at every step i  *)
(* the weight list has len - i entries, its k-th entry comes from the      *)
(* fitness of the index at position i + k, the candidate sampled at step i *)
(* leaves the list, so no index is sampled twice, and                      *)
(* min(requested_count, len - 1) samples are drawn                         *)

WeightCase ==
  /\ Selected
  /\ input.selection_type = Weight
  /\ 2 <= input.count
  /\ input.count <= Len(input.evaluations)

\* The steps of the loop of the call.
WeightRun ==
  WeightLoop(Iota(Len(input.evaluations)),
             [k \in 1..Len(input.evaluations) |-> input.evaluations[k].fitness],
             0, Min(input.count, Len(input.evaluations) - 1), input.script, 0,
             <<>>)

\* The index a step sampled: the one at position i + index.
SampledAt(trace, k) == trace[k].indexes[(k - 1) + trace[k].index + 1]

\* The indices not yet selected when step k begins: positions i.. of indexes.
Remaining(trace, k) ==
  {trace[k].indexes[j] : j \in k..Len(trace[k].indexes)}

C36_StepsOf(run) ==
  LET len == Len(input.evaluations)
      trace == run.trace
  IN  /\ \A k \in 1..Len(trace) :
           /\ Len(trace[k].values) = len - (k - 1)
           /\ \A j \in 1..Len(trace[k].values) :
                trace[k].values[j] = FitnessAt(trace[k].indexes[(k - 1) + j])
           /\ SampledAt(trace, k) \in Remaining(trace, k)
           /\ k < Len(trace) =>
                /\ SampledAt(trace, k) \notin Remaining(trace, k + 1)
                /\ Remaining(trace, k + 1) =
                     Remaining(trace, k) \ {SampledAt(trace, k)}
           /\ \A h \in 1..(k - 1) : SampledAt(trace, h) # SampledAt(trace, k)
      /\ ~run.err =>
           /\ Len(trace) = Min(input.count, len - 1)
           /\ output.result.kind = "Ok"
           /\ Draws(output.result) = Len(trace)
           /\ \A k \in 1..Len(trace) : output.result.idx[k] = SampledAt(trace, k)
      /\ run.err => output.result.kind = "Err"

\* C36: every step of selection by weight finds one value per index not yet
\* selected, each the fitness of the index at the same offset, samples one of
\* these indices and leaves the others for the next step, so no index is
\* sampled twice; a selection that returns indices has drawn
\* min(requested_count, len - 1) samples, which are its first results.
C36_WeightSteps == WeightCase => C36_StepsOf(WeightRun)

\* Three of three by weight: two samples, the first one away from the front
\* so that values and indexes are both rearranged.
C36_Witness ==
  /\ WeightCase
  /\ input.count = 3
  /\ output.result.kind = "Ok"
  /\ Len(WeightRun.trace) = 2
  /\ WeightRun.trace[1].index = 1
  /\ WeightRun.trace[2].index = 1
  /\ \E a, b \in 1..3 : FitnessAt(a - 1) # FitnessAt(b - 1)

----------------------------------------------------------------------------
(* C37: selection by tournament with requested_count <= len ends with a    *)
(* list of indices or a SelectionError for every pool_size, pool_size 0    *)
(* and a pool_size above the candidates left at some rank included         *)

\* C37: a tournament selection within range returns Ok or Err, whatever the
\* pool_size.
C37_TournamentEnds ==
  (/\ Selected
   /\ input.selection_type.type = "Tournament"
   /\ input.count <= Len(input.evaluations)) =>
    output.result.kind \in {"Ok", "Err"}

----------------------------------------------------------------------------
(* C38: every index returned by selection by rank belongs to the           *)
(* min(max_rank, len) individuals of highest fitness, whatever the random  *)
(* source returns; when requested_count equals min(max_rank, len) the      *)
(* returned set is exactly that top group                                  *)

RankReturned ==
  /\ Selected
  /\ input.selection_type.type = "Ranking"
  /\ output.result.kind = "Ok"

TopSize == Min(input.selection_type.param, Len(input.evaluations))

\* The individuals of strictly higher fitness than the individual at index.
Fitter(index) ==
  {b \in 0..(Len(input.evaluations) - 1) : FitnessAt(b) > FitnessAt(index)}

\* C38: an index returned by selection by rank is one of the first
\* min(max_rank, len) of the population sorted by descending fitness, fewer
\* than min(max_rank, len) individuals being fitter than it, for every
\* script of the random source; requesting the whole group returns the
\* whole group.
C38_RankTopGroup ==
  RankReturned =>
    /\ \A x \in Members(output.result.idx) :
         /\ x \in TopGroup
         /\ Cardinality(Fitter(x)) < TopSize
    /\ input.count = TopSize => Members(output.result.idx) = TopGroup

\* Three individuals, max_rank 2, two requested: the draw brings the second
\* of the sorted order to the front, and the individual of lowest fitness
\* stays out.
C38_Witness ==
  /\ RankReturned
  /\ FitnessesOf(input) = <<1, 0 - 1, 0>>
  /\ input.selection_type = Ranking(2)
  /\ input.count = 2
  /\ output.result.idx = <<2, 0>>

----------------------------------------------------------------------------
(* C39: when building the next generation fails with a selection error the *)
(* run returns InvalidSelection at once, fires no further event and leaves *)
(* the status as it was, Running or Halting, so the status never reaches   *)
(* Halted or Completed and a later halt on a Running status returns true   *)

\* The renewal step that ends the run with the error of the selection.
RenewalFailed == pc = "renew" /\ pc' = "idle"

\* No run is in progress and the status is that of a run in progress: the
\* engine a failed renewal leaves behind.
Abandoned ==
  /\ pc \in {"idle", "init", "invalid_status"}
  /\ status \in {"Running", "Halting"}

C39_Step ==
  /\ RenewalFailed =>
       /\ result'.kind = "Err"
       /\ result'.err = "InvalidSelection"
       /\ status \in {"Running", "Halting"}
       /\ status' = status
       /\ events' = events
       /\ snapshot' = snapshot
       /\ Abandoned'
  /\ Abandoned =>
       /\ Abandoned'
       /\ snapshot' = snapshot
       /\ status' # status => status = "Running" /\ status' = "Halting"
       /\ events' # events =>
            /\ events' = Append(events, StatusChanged("Halting"))
            /\ \E k \in HaltCalls : hpc[k] = "notify" /\ hpc'[k] = "done"
       /\ \A k \in HaltCalls :
            /\ (HaltChecks(k) /\ status = "Running") =>
                 status' = "Halting" /\ hpc'[k] = "notify"
            /\ (hpc[k] = "notify" /\ hpc'[k] = "done") => hres'[k]

\* C39: the renewal step that fails returns InvalidSelection and changes
\* neither the status, which is Running or Halting, nor the events nor the
\* snapshot; from then on the status is Running or Halting for ever, the
\* only event fired is the StatusChanged(Halting) of a halt request, and a
\* halt request that finds the status Running is accepted and returns true.
C39_SelectionError == [][C39_Step]_vars

\* A run that failed at its first renewal while Running, then a halt
\* request that was accepted and returned true.
C39_Witness ==
  /\ pc = "idle"
  /\ result.kind = "Err"
  /\ result.err = "InvalidSelection"
  /\ status = "Halting"
  /\ Len(predCalls) = 1
  /\ events[Len(events)] = StatusChanged("Halting")
  /\ events[Len(events) - 1] = Evaluated
  /\ \E k \in HaltCalls : hpc[k] = "done" /\ hres[k]

----------------------------------------------------------------------------
(* C40: listeners receive StatusChanged events in the order in which the   *)
(* transitions were applied to the status: when a halt request races with  *)
(* the loop, StatusChanged(Halting) is never delivered after               *)
(* StatusChanged(Halted), and the last StatusChanged delivered names the   *)
(* current status                                                          *)

IsStatusChanged(e) == e \in {StatusChanged(s) : s \in EvolutionStatus}

\* The StatusChanged events fired so far, in order.
StatusEvents == SelectSeq(events, IsStatusChanged)

\* A status has been set whose notification is still to be fired.
NotificationPending ==
  \/ pc \in {"init_notify", "running_notify", "halted_notify",
             "completed_notify"}
  \/ \E k \in HaltCalls : hpc[k] = "notify"

\* C40: no StatusChanged(Halting) is fired after a StatusChanged(Halted),
\* and whenever no notification is pending the last StatusChanged fired
\* names the current status.
C40_StatusOrder ==
  /\ \A i, j \in 1..Len(events) :
       (i < j /\ events[i] = StatusChanged("Halted")) =>
         events[j] # StatusChanged("Halting")
  /\ (~NotificationPending /\ StatusEvents # <<>>) =>
       StatusEvents[Len(StatusEvents)] = StatusChanged(status)

============================================================================
